---- MODULE Spec2Model ----
(***************************************************************************)
(* Model of the bitemporal change-computation pipeline of pytemporal:      *)
(* process_updates (src/src/lib.rs) with the overlap predicates            *)
(* (src/src/overlap.rs), the delta timeline sweep (src/src/timeline.rs),   *)
(* the full-state comparator (src/src/lib.rs) and the post-processing      *)
(* stage (src/src/conflation.rs).                                          *)
(*                                                                         *)
(* Instants are small naturals; MAX_DATETIME / MAX_TIMESTAMP stand for the *)
(* far-future sentinel 2262-04-11 23:59:59 and are larger than every other *)
(* instant.  A row's value columns are represented by its value_hash.  Row *)
(* indices are 0-based as in the source; row i of a batch b is b[i + 1].   *)
(* The temporal columns are Timestamp(Microsecond), as in the test schema. *)
(***************************************************************************)
EXTENDS Integers, Sequences, FiniteSets, TLC

VARIABLES
    current_state,    \* input batch: sequence of rows
    updates,          \* input batch: sequence of rows; rebound by prepare_inputs
    conflate_inputs,  \* caller flag: merge adjacent equal-hash update rows first
    input_updates,    \* the updates batch as the caller passed it (history)
    update_mode,      \* "Delta" | "FullState"
    system_date,      \* caller-provided calendar day
    batch_timestamp,  \* captured by prepare_inputs; NONE before
    pc,               \* position in process_updates_with_algorithm
    id_groups,        \* the groups in the iteration order of the hash map
    to_expire,        \* accumulated / final expire indices
    to_insert,        \* accumulated / final insert batches (sequence of batches)
    expired_records,  \* final expired-records batches
    processed,        \* number of groups of id_groups already processed
    call,             \* 1 for the first call, 2 for a re-run on the applied table
    first             \* inputs and changeset of the first call (history)

vars == <<current_state, updates, conflate_inputs, input_updates, update_mode, system_date,
          batch_timestamp, pc, id_groups, processed, to_expire, to_insert, expired_records,
          call, first>>

----------------------------------------------------------------------------
(* Bounds of the model and program constants *)

MaxT == 2
MaxCur == 2
MaxUpd == 2
MaxRows == 3
MaxChain == 3

MAX_DATETIME == 9
MAX_TIMESTAMP == 9
INCREMENTAL_THRESHOLD == 200
SMALL_BATCH_ROWS == 1000
target_batch_size == 10000

NONE == -1

Keys == {1, 2}
\* the same two keys in a Float64 identity column (1.0 and 2.0)
Float64Keys == {11, 12}
Hashes == {1, 2}
Instants == (0..MaxT) \cup {MAX_DATETIME}
SystemDates == {1}
Modes == {"Delta", "FullState"}

\* chrono::Utc::now() of the k-th call: later than every as_of_from of the inputs
UtcNow(k) == MaxRows + k

----------------------------------------------------------------------------
(* Generic helpers *)

Min(a, b) == IF a <= b THEN a ELSE b
Max(a, b) == IF a >= b THEN a ELSE b

RECURSIVE Flatten(_)
Flatten(batches) ==
    IF batches = <<>> THEN <<>> ELSE Head(batches) \o Flatten(Tail(batches))

Range(s) == {s[i] : i \in DOMAIN s}

\* 0-based row access
RowAt(batch, idx) == batch[idx + 1]

----------------------------------------------------------------------------
(* src/src/overlap.rs *)

has_temporal_intersection(current, update) ==
    current.effective_from < update.effective_to /\ current.effective_to > update.effective_from

can_conflate_records(current, update) ==
    LET same_values == current.value_hash = update.value_hash
        is_extension == current.effective_to = update.effective_from
        is_reverse_extension == update.effective_to = current.effective_from
    IN same_values /\ (is_extension \/ is_reverse_extension)

is_no_change_update(current_records, update) ==
    \E i \in DOMAIN current_records :
        has_temporal_intersection(current_records[i], update)
        /\ current_records[i].value_hash = update.value_hash

has_overlap_with_current(current_records, update) ==
    LET has_any_intersection ==
            \E i \in DOMAIN current_records : has_temporal_intersection(current_records[i], update)
    IN IF has_any_intersection THEN TRUE
       ELSE \E i \in DOMAIN current_records : can_conflate_records(current_records[i], update)

\* a variant that takes a current row as touched only when it can be conflated
has_overlap_conflation_only(upds, current, all_current_records) ==
    \E j \in DOMAIN upds : can_conflate_records(current, upds[j])

\* a variant without the context check: any conflatable update touches the row
has_overlap_without_context(upds, current, all_current_records) ==
    \E j \in DOMAIN upds :
        \/ has_temporal_intersection(current, upds[j])
        \/ can_conflate_records(current, upds[j])

has_overlap_with_updates_contextual(upds, current, all_current_records) ==
    \E j \in DOMAIN upds :
        LET update == upds[j]
            update_has_any_intersection ==
                \E i \in DOMAIN all_current_records :
                    has_temporal_intersection(all_current_records[i], update)
        IN IF has_temporal_intersection(current, update) THEN TRUE
           ELSE IF ~update_has_any_intersection THEN can_conflate_records(current, update)
           ELSE FALSE

is_empty_range(update_record) ==
    update_record.effective_from >= update_record.effective_to

categorize_records(current_records, update_records) ==
    LET Kept(u) == ~is_empty_range(u) /\ ~is_no_change_update(current_records, u)
        IsOverlapping(u) == Kept(u) /\ has_overlap_with_current(current_records, u)
        IsNonOverlapping(u) == Kept(u) /\ ~has_overlap_with_current(current_records, u)
        overlapping_updates == SelectSeq(update_records, IsOverlapping)
        non_overlapping_updates == SelectSeq(update_records, IsNonOverlapping)
        all_remaining_updates == overlapping_updates \o non_overlapping_updates
        IsOverlappingCurrent(c) ==
            has_overlap_with_updates_contextual(all_remaining_updates, c, current_records)
    IN [overlapping_current |-> SelectSeq(current_records, IsOverlappingCurrent),
        overlapping_updates |-> overlapping_updates,
        non_overlapping_updates |-> non_overlapping_updates]

----------------------------------------------------------------------------
(* src/src/batch_utils.rs: output rows.  src names the batch and row the    *)
(* non-temporal columns are projected from; via names the producing path.  *)
(* Both are bookkeeping of the model and are never compared by the code.   *)

OutRow(id, vh, ef, et, af, at, b, i, via) ==
    [id |-> id, value_hash |-> vh, effective_from |-> ef, effective_to |-> et,
     as_of_from |-> af, as_of_to |-> at, src |-> <<b, i>>, via |-> via]

\* build_temporal_columns: temporal columns and value_hash from the record,
\* every other column from source_batch[source_row]
build_temporal_columns(record, source_batch, source_row, b, via) ==
    OutRow(RowAt(source_batch, source_row).id, record.value_hash,
           record.effective_from, record.effective_to,
           record.as_of_from, record.as_of_to, b, source_row, via)

create_record_batch_from_record(record, original_batch, original_row) ==
    <<build_temporal_columns(record, original_batch, original_row, "cur", "segment")>>

create_record_batch_from_update(upd_batch, row_idx, record) ==
    <<build_temporal_columns(record, upd_batch, row_idx, "upd", "segment")>>

create_record_batch_from_records(records, source_batch, source_rows) ==
    [n \in 1..Len(records) |->
        build_temporal_columns(records[n], source_batch, source_rows[n], "upd", "direct")]

\* a variant of create_expired_records_batch that copies as_of_to like any other column
create_expired_records_batch_plain_copy(current, expire_indices, expiry_timestamp) ==
    [n \in 1..Len(expire_indices) |-> RowAt(current, expire_indices[n])]

create_expired_records_batch(current, expire_indices, expiry_timestamp) ==
    [n \in 1..Len(expire_indices) |->
        [RowAt(current, expire_indices[n]) EXCEPT !.as_of_to = expiry_timestamp]]

process_non_overlapping_updates(upds, updates_batch) ==
    IF upds = <<>> THEN <<>>
    ELSE <<create_record_batch_from_records(
              upds, updates_batch, [n \in 1..Len(upds) |-> upds[n].original_index])>>

----------------------------------------------------------------------------
(* src/src/timeline.rs *)

order(t) ==
    CASE t = "CurrentEnd" -> 0
      [] t = "UpdateStart" -> 1
      [] t = "UpdateEnd" -> 2
      [] t = "CurrentStart" -> 3

\* the comparator of events.sort_by: a sorts strictly before b
EventLess(a, b) ==
    \/ a.date < b.date
    \/ a.date = b.date /\ order(a.event_type) < order(b.event_type)

\* stable insertion: e goes after every element that does not sort after it
RECURSIVE InsertEvent(_, _)
InsertEvent(sorted, e) ==
    IF sorted = <<>> THEN <<e>>
    ELSE IF EventLess(e, sorted[Len(sorted)])
         THEN Append(InsertEvent(SubSeq(sorted, 1, Len(sorted) - 1), e), sorted[Len(sorted)])
         ELSE Append(sorted, e)

RECURSIVE SortEvents(_)
SortEvents(events) ==
    IF events = <<>> THEN <<>>
    ELSE InsertEvent(SortEvents(SubSeq(events, 1, Len(events) - 1)), events[Len(events)])

\* Start event, and End event unless the record is open-ended
RECURSIVE RecordEvents(_, _, _)
RecordEvents(records, start_type, end_type) ==
    IF records = <<>> THEN <<>>
    ELSE LET record == Head(records)
             start == <<[date |-> record.effective_from, event_type |-> start_type, record |-> record]>>
             end == IF record.effective_to # MAX_DATETIME
                    THEN <<[date |-> record.effective_to, event_type |-> end_type, record |-> record]>>
                    ELSE <<>>
         IN start \o end \o RecordEvents(Tail(records), start_type, end_type)

\* index of the first record of an active set, NONE when the set is empty
FirstActive(active) == IF active = <<>> THEN NONE ELSE Head(active).original_index

\* the emitted row with a note of the first active records it was decided on
\* (bookkeeping of the model, like src and via)
NoteActive(batch, active_current, active_updates) ==
    [n \in 1..Len(batch) |->
        batch[n] @@ [active |-> [cur |-> FirstActive(active_current),
                                 upd |-> FirstActive(active_updates)]]]

\* a variant that leaves a re-emitted current row its own as_of_from
emit_segment_own_as_of(from_date, to_date, active_current, active_updates, current_batch, updates_batch, update_as_of_from) ==
    IF from_date >= to_date THEN <<>>
    ELSE IF active_updates = <<>> /\ active_current = <<>> THEN <<>>
    ELSE
      LET should_emit_update ==
              /\ active_updates # <<>>
              /\ IF active_current # <<>>
                 THEN Head(active_updates).value_hash # Head(active_current).value_hash
                 ELSE TRUE
          record_to_emit == IF should_emit_update THEN Head(active_updates)
                            ELSE Head(active_current)
          segment_record == [record_to_emit EXCEPT !.effective_from = from_date,
                                                   !.effective_to = to_date,
                                                   !.as_of_to = MAX_TIMESTAMP,
                                                   !.original_index = NONE]
      IN IF ~should_emit_update
         THEN <<NoteActive(create_record_batch_from_record(
                               segment_record, current_batch, record_to_emit.original_index),
                           active_current, active_updates)>>
         ELSE <<NoteActive(create_record_batch_from_update(
                               updates_batch, record_to_emit.original_index, segment_record),
                           active_current, active_updates)>>

emit_segment(from_date, to_date, active_current, active_updates, current_batch, updates_batch, update_as_of_from) ==
    IF from_date >= to_date THEN <<>>
    ELSE IF active_updates = <<>> /\ active_current = <<>> THEN <<>>
    ELSE
      LET should_emit_update ==
              /\ active_updates # <<>>
              /\ IF active_current # <<>>
                 THEN Head(active_updates).value_hash # Head(active_current).value_hash
                 ELSE TRUE
          use_current_batch == ~should_emit_update
          record_to_emit == IF should_emit_update THEN Head(active_updates)
                            ELSE Head(active_current)
          as_of_from == IF use_current_batch /\ update_as_of_from # NONE
                        THEN update_as_of_from
                        ELSE record_to_emit.as_of_from
          segment_record == [id_values |-> record_to_emit.id_values,
                             value_hash |-> record_to_emit.value_hash,
                             effective_from |-> from_date,
                             effective_to |-> to_date,
                             as_of_from |-> as_of_from,
                             as_of_to |-> MAX_TIMESTAMP,
                             original_index |-> NONE]
      IN IF use_current_batch
         THEN <<NoteActive(create_record_batch_from_record(
                               segment_record, current_batch, record_to_emit.original_index),
                           active_current, active_updates)>>
         ELSE <<NoteActive(create_record_batch_from_update(
                               updates_batch, record_to_emit.original_index, segment_record),
                           active_current, active_updates)>>

\* the inner loop "process all events at this date"
RECURSIVE ProcessEventsAt(_, _, _, _, _)
ProcessEventsAt(events, i, current_date, active_current, active_updates) ==
    IF i <= Len(events) /\ events[i].date = current_date
    THEN LET event == events[i]
             Retained(r) == r.effective_from # event.record.effective_from
         IN CASE event.event_type = "CurrentStart" ->
                   ProcessEventsAt(events, i + 1, current_date,
                                   Append(active_current, event.record), active_updates)
              [] event.event_type = "CurrentEnd" ->
                   ProcessEventsAt(events, i + 1, current_date,
                                   SelectSeq(active_current, Retained), active_updates)
              [] event.event_type = "UpdateStart" ->
                   ProcessEventsAt(events, i + 1, current_date,
                                   active_current, Append(active_updates, event.record))
              [] event.event_type = "UpdateEnd" ->
                   ProcessEventsAt(events, i + 1, current_date,
                                   active_current, SelectSeq(active_updates, Retained))
    ELSE [i |-> i, active_current |-> active_current, active_updates |-> active_updates]

\* the outer loop "while i < events.len()"
RECURSIVE Sweep(_, _, _, _, _, _, _, _, _)
Sweep(events, i, active_current, active_updates, last_date, insert_batches, current_batch, updates_batch, update_as_of_from) ==
    IF i > Len(events) THEN insert_batches
    ELSE
      LET current_date == events[i].date
          gap == IF /\ last_date # NONE
                    /\ last_date < current_date
                    /\ (active_current # <<>> \/ active_updates # <<>>)
                 THEN emit_segment(last_date, current_date, active_current, active_updates,
                                   current_batch, updates_batch, update_as_of_from)
                 ELSE <<>>
          st == ProcessEventsAt(events, i, current_date, active_current, active_updates)
          next_date == IF st.i <= Len(events) THEN events[st.i].date ELSE MAX_DATETIME
          seg == IF /\ (st.active_current # <<>> \/ st.active_updates # <<>>)
                    /\ next_date > current_date
                 THEN emit_segment(current_date, next_date, st.active_current,
                                   st.active_updates, current_batch, updates_batch,
                                   update_as_of_from)
                 ELSE <<>>
      IN Sweep(events, st.i, st.active_current, st.active_updates, current_date,
               insert_batches \o gap \o seg, current_batch, updates_batch, update_as_of_from)

process_id_timeline(current_records, update_records, current_batch, updates_batch) ==
    LET cat == categorize_records(current_records, update_records)
        direct == process_non_overlapping_updates(cat.non_overlapping_updates, updates_batch)
    IN IF cat.overlapping_current = <<>> /\ cat.overlapping_updates = <<>>
       THEN [expire_indices |-> <<>>, insert_batches |-> direct]
       ELSE
         LET update_as_of_from ==
                 IF cat.overlapping_updates # <<>>
                 THEN Head(cat.overlapping_updates).as_of_from
                 ELSE NONE
             events == SortEvents(
                 RecordEvents(cat.overlapping_current, "CurrentStart", "CurrentEnd")
                 \o RecordEvents(cat.overlapping_updates, "UpdateStart", "UpdateEnd"))
             inserts == Sweep(events, 1, <<>>, <<>>, NONE, direct,
                              current_batch, updates_batch, update_as_of_from)
         IN [expire_indices |->
                 [n \in 1..Len(cat.overlapping_current) |->
                     cat.overlapping_current[n].original_index],
             insert_batches |-> inserts]

----------------------------------------------------------------------------
(* src/src/lib.rs: per-group processing *)

create_bitemporal_records_from_indices(row_indices, batch) ==
    [n \in 1..Len(row_indices) |->
        LET r == RowAt(batch, row_indices[n])
        IN [id_values |-> r.id,
            value_hash |-> r.value_hash,
            effective_from |-> r.effective_from,
            effective_to |-> r.effective_to,
            as_of_from |-> r.as_of_from,
            as_of_to |-> MAX_TIMESTAMP,
            original_index |-> row_indices[n]]]

\* take_record_batch of the current rows with effective_to and as_of_from replaced
create_tombstone_records_optimized(current_row_indices, current_batch, sys_date, timestamp) ==
    [n \in 1..Len(current_row_indices) |->
        LET r == RowAt(current_batch, current_row_indices[n])
        IN OutRow(r.id, r.value_hash, r.effective_from, sys_date,
                  timestamp, r.as_of_to, "cur", current_row_indices[n], "tombstone")]

get_temporal_bounds(batch, row_idx) ==
    <<RowAt(batch, row_idx).effective_from, RowAt(batch, row_idx).effective_to>>

are_segments_adjacent(seg1_from, seg1_to, seg2_from, seg2_to) ==
    seg1_to = seg2_from \/ seg2_to = seg1_from

create_merged_segment_cross_batch(current_batch, updates_batch, current_idx, update_idx, timestamp) ==
    LET curr == get_temporal_bounds(current_batch, current_idx)
        upd == get_temporal_bounds(updates_batch, update_idx)
        merged_from == Min(curr[1], upd[1])
        merged_to == Max(curr[2], upd[2])
        base == RowAt(updates_batch, update_idx)
    IN <<OutRow(base.id, base.value_hash, merged_from, merged_to,
                timestamp, base.as_of_to, "upd", update_idx, "merged")>>

\* the search loop of process_full_state_optimized: the first current row with the
\* update's hash decides (the loop breaks on it)
RECURSIVE FindMatchingCurrent(_, _, _, _, _)
FindMatchingCurrent(current_row_indices, n, current_batch, update_hash, update_temporal) ==
    IF n > Len(current_row_indices)
    THEN [matching_current_idx |-> NONE, is_adjacent |-> FALSE, is_exact_match |-> FALSE]
    ELSE LET current_idx == current_row_indices[n]
             current_temporal == get_temporal_bounds(current_batch, current_idx)
         IN IF RowAt(current_batch, current_idx).value_hash = update_hash
            THEN LET adj == are_segments_adjacent(current_temporal[1], current_temporal[2],
                                                  update_temporal[1], update_temporal[2])
                 IN [matching_current_idx |-> current_idx,
                     is_adjacent |-> adj,
                     is_exact_match |-> ~adj /\ current_temporal = update_temporal]
            ELSE FindMatchingCurrent(current_row_indices, n + 1, current_batch,
                                     update_hash, update_temporal)

\* the loop over update_row_indices; acc = [expire, inserts, updates_to_insert]
RECURSIVE FullStateLoop(_, _, _, _, _, _, _)
FullStateLoop(current_row_indices, update_row_indices, n, current_batch, updates_batch, timestamp, acc) ==
    IF n > Len(update_row_indices) THEN acc
    ELSE
      LET update_idx == update_row_indices[n]
          m == FindMatchingCurrent(current_row_indices, 1, current_batch,
                                   RowAt(updates_batch, update_idx).value_hash,
                                   get_temporal_bounds(updates_batch, update_idx))
          acc1 ==
            IF m.matching_current_idx # NONE /\ m.is_adjacent
            THEN [acc EXCEPT
                    !.expire = Append(@, m.matching_current_idx),
                    !.inserts = @ \o <<create_merged_segment_cross_batch(
                                          current_batch, updates_batch,
                                          m.matching_current_idx, update_idx, timestamp)>>]
            ELSE IF m.matching_current_idx # NONE /\ m.is_exact_match
            THEN acc
            ELSE IF m.matching_current_idx # NONE
            THEN [acc EXCEPT !.updates_to_insert = Append(@, update_idx)]
            ELSE [acc EXCEPT
                    !.expire = IF acc.updates_to_insert = <<>>
                               THEN @ \o current_row_indices ELSE @,
                    !.updates_to_insert = Append(@, update_idx)]
      IN FullStateLoop(current_row_indices, update_row_indices, n + 1, current_batch,
                       updates_batch, timestamp, acc1)

\* take_record_batch(updates_batch, updates_to_insert): the rows as they are
TakeUpdates(updates_batch, indices) ==
    [n \in 1..Len(indices) |->
        LET r == RowAt(updates_batch, indices[n])
        IN OutRow(r.id, r.value_hash, r.effective_from, r.effective_to,
                  r.as_of_from, r.as_of_to, "upd", indices[n], "slice")]

process_full_state_optimized(current_row_indices, update_row_indices, current_batch, updates_batch, timestamp) ==
    LET acc == FullStateLoop(current_row_indices, update_row_indices, 1, current_batch,
                             updates_batch, timestamp,
                             [expire |-> <<>>, inserts |-> <<>>, updates_to_insert |-> <<>>])
    IN [expire_indices |-> acc.expire,
        insert_batches |->
            IF acc.updates_to_insert # <<>>
            THEN acc.inserts \o <<TakeUpdates(updates_batch, acc.updates_to_insert)>>
            ELSE acc.inserts]

\* as_of_from of row 0 of the updates batch (a Timestamp(Microsecond) column)
consistent_timestamp(updates_batch, timestamp) ==
    IF Len(updates_batch) > 0 THEN RowAt(updates_batch, 0).as_of_from ELSE timestamp

\* a variant that tombstones a group without updates in either mode
process_id_group_tombstone_always(current_row_indices, update_row_indices, current_batch, updates_batch, sys_date, mode, timestamp) ==
    LET ts == consistent_timestamp(updates_batch, timestamp)
    IN IF update_row_indices = <<>>
       THEN [expire_indices |-> current_row_indices,
             insert_batches |->
                 IF current_row_indices # <<>>
                 THEN <<create_tombstone_records_optimized(
                           current_row_indices, current_batch, sys_date, ts)>>
                 ELSE <<>>]
       ELSE IF mode = "FullState"
       THEN process_full_state_optimized(current_row_indices, update_row_indices,
                                         current_batch, updates_batch, ts)
       ELSE process_id_timeline(
                create_bitemporal_records_from_indices(current_row_indices, current_batch),
                create_bitemporal_records_from_indices(update_row_indices, updates_batch),
                current_batch, updates_batch)

process_id_group_optimized(current_row_indices, update_row_indices, current_batch, updates_batch, sys_date, mode, timestamp) ==
    LET ts == consistent_timestamp(updates_batch, timestamp)
    IN IF update_row_indices = <<>>
       THEN IF mode = "FullState"
            THEN [expire_indices |-> current_row_indices,
                  insert_batches |->
                      IF current_row_indices # <<>>
                      THEN <<create_tombstone_records_optimized(
                                current_row_indices, current_batch, sys_date, ts)>>
                      ELSE <<>>]
            ELSE [expire_indices |-> <<>>, insert_batches |-> <<>>]
       ELSE IF mode = "FullState"
       THEN process_full_state_optimized(current_row_indices, update_row_indices,
                                         current_batch, updates_batch, ts)
       ELSE process_id_timeline(
                create_bitemporal_records_from_indices(current_row_indices, current_batch),
                create_bitemporal_records_from_indices(update_row_indices, updates_batch),
                current_batch, updates_batch)

\* the Arrow type of the identity column that holds the value v
IdDataType(v) == IF v \in Float64Keys THEN "Float64" ELSE "Int64"

\* create_id_key_with_buffer: the text key of the identity column; Utf8, Int32, Int64
\* and Float64 values are written with to_string, distinct values giving distinct keys
create_id_key_with_buffer(batch, row_idx) == RowAt(batch, row_idx).id

\* row indices of batch whose key is k, in row order
IndicesOf(batch, k) ==
    LET Sel(i) == create_id_key_with_buffer(batch, i) = k
    IN SelectSeq([n \in 1..Len(batch) |-> n - 1], Sel)

build_id_groups(current, upds) ==
    LET ks == {create_id_key_with_buffer(current, i - 1) : i \in DOMAIN current}
              \cup {create_id_key_with_buffer(upds, i - 1) : i \in DOMAIN upds}
    IN [k \in ks |-> [cur |-> IndicesOf(current, k), upd |-> IndicesOf(upds, k)]]

----------------------------------------------------------------------------
(* src/src/conflation.rs: post-processing of the insert batches *)

\* extract_column_value: Int32, Int64, Utf8 and LargeUtf8 values are written with
\* to_string; a value of any other type gives the text "<type>@<idx>", which does not
\* depend on the value (100 + idx stands for that text)
extract_column_value(v, idx) ==
    IF IdDataType(v) \in {"Int32", "Int64", "Utf8", "LargeUtf8"} THEN v ELSE 100 + idx

extract_id_key(batch, row_idx) == extract_column_value(RowAt(batch, row_idx).id, row_idx)

\* the key deduplicate_record_batches sorts and compares by (row 0 of a one-row batch)
DedupKey(batch) ==
    <<extract_id_key(batch, 0), RowAt(batch, 0).effective_from,
      RowAt(batch, 0).effective_to, RowAt(batch, 0).value_hash>>

\* the comparator of records.sort_by: lexicographic on the key
RECURSIVE TupleLess(_, _)
TupleLess(a, b) ==
    IF a = <<>> THEN FALSE
    ELSE Head(a) < Head(b) \/ (Head(a) = Head(b) /\ TupleLess(Tail(a), Tail(b)))

RECURSIVE InsertRecord(_, _)
InsertRecord(sorted, b) ==
    IF sorted = <<>> THEN <<b>>
    ELSE IF TupleLess(DedupKey(b), DedupKey(sorted[Len(sorted)]))
         THEN Append(InsertRecord(SubSeq(sorted, 1, Len(sorted) - 1), b), sorted[Len(sorted)])
         ELSE Append(sorted, b)

RECURSIVE SortRecords(_)
SortRecords(records) ==
    IF records = <<>> THEN <<>>
    ELSE InsertRecord(SortRecords(SubSeq(records, 1, Len(records) - 1)), records[Len(records)])

\* keeps a record unless its key equals the key of the record before it
RECURSIVE DropRepeats(_)
DropRepeats(records) ==
    IF Len(records) <= 1 THEN records
    ELSE LET front == SubSeq(records, 1, Len(records) - 1)
             last == records[Len(records)]
         IN IF DedupKey(last) = DedupKey(front[Len(front)])
            THEN DropRepeats(front)
            ELSE Append(DropRepeats(front), last)

deduplicate_record_batches(batches) ==
    LET OneRow(b) == Len(b) = 1
    IN DropRepeats(SortRecords(SelectSeq(batches, OneRow)))

can_merge_batches(batch1, batch2) ==
    IF Len(batch1) # 1 \/ Len(batch2) # 1 THEN FALSE
    ELSE /\ RowAt(batch1, 0).id = RowAt(batch2, 0).id
         /\ RowAt(batch1, 0).value_hash = RowAt(batch2, 0).value_hash
         /\ RowAt(batch1, 0).effective_to = RowAt(batch2, 0).effective_from

extend_batch_to_date(batch, new_effective_to) ==
    <<[RowAt(batch, 0) EXCEPT !.effective_to = new_effective_to]>>

\* batches.sort_by on the effective_from of row 0 (a stable sort)
RECURSIVE InsertBatch(_, _)
InsertBatch(sorted, b) ==
    IF sorted = <<>> THEN <<b>>
    ELSE IF RowAt(b, 0).effective_from < RowAt(sorted[Len(sorted)], 0).effective_from
         THEN Append(InsertBatch(SubSeq(sorted, 1, Len(sorted) - 1), b), sorted[Len(sorted)])
         ELSE Append(sorted, b)

RECURSIVE SortBatches(_)
SortBatches(batches) ==
    IF batches = <<>> THEN <<>>
    ELSE InsertBatch(SortBatches(SubSeq(batches, 1, Len(batches) - 1)), batches[Len(batches)])

\* the merge loop: result so far, the batch being extended, the batches still to come
RECURSIVE MergeLoop(_, _, _)
MergeLoop(result, current_batch, rest) ==
    IF rest = <<>> THEN Append(result, current_batch)
    ELSE LET next_batch == Head(rest)
         IN IF can_merge_batches(current_batch, next_batch)
            THEN MergeLoop(result,
                           extend_batch_to_date(current_batch, RowAt(next_batch, 0).effective_to),
                           Tail(rest))
            ELSE MergeLoop(Append(result, current_batch), next_batch, Tail(rest))

simple_conflate_batches(batches) ==
    IF Len(batches) <= 1 THEN batches
    ELSE LET sorted == SortBatches(batches)
         IN MergeLoop(<<>>, Head(sorted), Tail(sorted))

\* table.slice(offset, length) for offset = 0, target, 2 * target, ...
RECURSIVE SplitTable(_, _)
SplitTable(table, size) ==
    IF table = <<>> THEN <<>>
    ELSE LET length == Min(size, Len(table))
         IN <<SubSeq(table, 1, length)>> \o SplitTable(SubSeq(table, length + 1, Len(table)), size)

consolidate_final_batches(batches) ==
    IF batches = <<>> THEN <<>>
    ELSE IF Len(batches) = 1 \/ \A i \in DOMAIN batches : Len(batches[i]) > SMALL_BATCH_ROWS
    THEN batches
    ELSE LET table == Flatten(batches)
         IN IF Len(table) <= target_batch_size THEN <<table>>
            ELSE SplitTable(table, target_batch_size)

\* group.sort_by(effective_from) of conflate_input_updates: a stable sort of the row
\* indices of one key
RECURSIVE InsertRowInfo(_, _, _)
InsertRowInfo(upds, sorted, row_idx) ==
    IF sorted = <<>> THEN <<row_idx>>
    ELSE IF RowAt(upds, row_idx).effective_from
              < RowAt(upds, sorted[Len(sorted)]).effective_from
         THEN Append(InsertRowInfo(upds, SubSeq(sorted, 1, Len(sorted) - 1), row_idx),
                     sorted[Len(sorted)])
         ELSE Append(sorted, row_idx)

RECURSIVE SortGroup(_, _)
SortGroup(upds, group) ==
    IF group = <<>> THEN <<>>
    ELSE InsertRowInfo(upds, SortGroup(upds, SubSeq(group, 1, Len(group) - 1)),
                       group[Len(group)])

\* the inner loop: the last position of the chain of consecutive rows with equal
\* value_hash and touching intervals that holds position segment_end
RECURSIVE SegmentEnd(_, _, _)
SegmentEnd(upds, group, segment_end) ==
    IF /\ segment_end + 1 <= Len(group)
       /\ RowAt(upds, group[segment_end]).value_hash
            = RowAt(upds, group[segment_end + 1]).value_hash
       /\ RowAt(upds, group[segment_end]).effective_to
            = RowAt(upds, group[segment_end + 1]).effective_from
    THEN SegmentEnd(upds, group, segment_end + 1)
    ELSE segment_end

\* the outer loop from position i: the first row of every chain with the effective_to
\* of the chain's last row
RECURSIVE GroupSegments(_, _, _)
GroupSegments(upds, group, i) ==
    IF i > Len(group) THEN {}
    ELSE LET segment_end == SegmentEnd(upds, group, i)
         IN {[row_idx |-> group[i],
              effective_to |-> RowAt(upds, group[segment_end]).effective_to]}
            \cup GroupSegments(upds, group, segment_end + 1)

\* the kept rows in their original order, effective_to extended to the end of the chain
conflate_input_updates(upds) ==
    IF Len(upds) <= 1 THEN upds
    ELSE LET ks == {RowAt(upds, i - 1).id : i \in DOMAIN upds}
             segments ==
                 UNION {GroupSegments(upds, SortGroup(upds, IndicesOf(upds, k)), 1) : k \in ks}
             Keep(i) == \E s \in segments : s.row_idx = i
             rows_to_keep == SelectSeq([n \in 1..Len(upds) |-> n - 1], Keep)
             NewTo(i) == (CHOOSE s \in segments : s.row_idx = i).effective_to
         IN [n \in 1..Len(rows_to_keep) |->
                [RowAt(upds, rows_to_keep[n]) EXCEPT !.effective_to = NewTo(rows_to_keep[n])]]

----------------------------------------------------------------------------
(* src/src/lib.rs: the call *)

\* to_expire.sort_unstable()
RECURSIVE InsertIndex(_, _)
InsertIndex(sorted, i) ==
    IF sorted = <<>> THEN <<i>>
    ELSE IF i < sorted[Len(sorted)]
         THEN Append(InsertIndex(SubSeq(sorted, 1, Len(sorted) - 1), i), sorted[Len(sorted)])
         ELSE Append(sorted, i)

RECURSIVE sort_unstable(_)
sort_unstable(v) ==
    IF v = <<>> THEN <<>>
    ELSE InsertIndex(sort_unstable(SubSeq(v, 1, Len(v) - 1)), v[Len(v)])

\* Vec::dedup: removes consecutive repeated elements
RECURSIVE dedup(_)
dedup(v) ==
    IF Len(v) <= 1 THEN v
    ELSE LET front == SubSeq(v, 1, Len(v) - 1)
         IN IF v[Len(v)] = front[Len(front)] THEN dedup(front)
            ELSE Append(dedup(front), v[Len(v)])

\* a variant that sorts and keeps repeated indices
sort_without_dedup(expire) == sort_unstable(expire)

sort_and_dedup_expire(expire) == dedup(sort_unstable(expire))

ChangeSet(expire, inserts, expired) ==
    [to_expire |-> expire, to_insert |-> inserts, expired_records |-> expired]

build_final_changeset(expire, inserts, current, timestamp) ==
    LET sorted_expire == sort_and_dedup_expire(expire)
        final_inserts ==
            consolidate_final_batches(
                simple_conflate_batches(deduplicate_record_batches(inserts)))
        expired == IF sorted_expire # <<>>
                   THEN <<create_expired_records_batch(current, sorted_expire, timestamp)>>
                   ELSE <<>>
    IN ChangeSet(sorted_expire, final_inserts, expired)

\* updates.clone() as an insert batch
CloneUpdates(upds) ==
    [n \in 1..Len(upds) |->
        OutRow(upds[n].id, upds[n].value_hash, upds[n].effective_from, upds[n].effective_to,
               upds[n].as_of_from, upds[n].as_of_to, "upd", n - 1, "quick")]

\* a variant that tombstones the table on an empty updates batch in either mode
handle_empty_inputs_any_mode(current, upds, sys_date, mode, timestamp) ==
    IF Len(upds) = 0
    THEN IF Len(current) > 0
         THEN LET current_indices == [n \in 1..Len(current) |-> n - 1]
              IN [some |-> TRUE,
                  changeset |->
                      ChangeSet(current_indices,
                                <<create_tombstone_records_optimized(
                                     current_indices, current, sys_date, timestamp)>>,
                                <<create_expired_records_batch(
                                     current, current_indices, timestamp)>>)]
         ELSE [some |-> TRUE, changeset |-> ChangeSet(<<>>, <<>>, <<>>)]
    ELSE IF Len(current) = 0
    THEN [some |-> TRUE, changeset |-> ChangeSet(<<>>, <<CloneUpdates(upds)>>, <<>>)]
    ELSE [some |-> FALSE, changeset |-> ChangeSet(<<>>, <<>>, <<>>)]

\* some = FALSE stands for Ok(None): continue with normal processing
handle_empty_inputs(current, upds, sys_date, mode, timestamp) ==
    IF Len(upds) = 0
    THEN IF mode = "FullState" /\ Len(current) > 0
         THEN LET current_indices == [n \in 1..Len(current) |-> n - 1]
              IN [some |-> TRUE,
                  changeset |->
                      ChangeSet(current_indices,
                                <<create_tombstone_records_optimized(
                                     current_indices, current, sys_date, timestamp)>>,
                                <<create_expired_records_batch(
                                     current, current_indices, timestamp)>>)]
         ELSE [some |-> TRUE, changeset |-> ChangeSet(<<>>, <<>>, <<>>)]
    ELSE IF Len(current) = 0
    THEN [some |-> TRUE, changeset |-> ChangeSet(<<>>, <<CloneUpdates(upds)>>, <<>>)]
    ELSE [some |-> FALSE, changeset |-> ChangeSet(<<>>, <<>>, <<>>)]

\* the body of the loop of process_all_id_groups for one group
extend_with_group(expire, inserts, result) ==
    LET expire1 == expire \o result.expire_indices
        inserts1 == inserts \o result.insert_batches
    IN IF Len(inserts1) > INCREMENTAL_THRESHOLD
       THEN [to_expire |-> expire1,
             to_insert |-> consolidate_final_batches(deduplicate_record_batches(inserts1))]
       ELSE [to_expire |-> expire1, to_insert |-> inserts1]

\* the orders in which a hash map over the keys ks may be iterated
RECURSIVE IterationOrders(_)
IterationOrders(ks) ==
    IF ks = {} THEN {<<>>}
    ELSE UNION {{<<k>> \o rest : rest \in IterationOrders(ks \ {k})} : k \in ks}

GroupsInOrder(groups, key_order) ==
    [n \in 1..Len(key_order) |->
        [key |-> key_order[n], cur |-> groups[key_order[n]].cur,
         upd |-> groups[key_order[n]].upd]]

\* process_all_id_groups, serial path: acc = [to_expire, to_insert]
RECURSIVE process_all_id_groups(_, _, _, _, _, _, _, _)
process_all_id_groups(groups, n, current, upds, sys_date, mode, timestamp, acc) ==
    IF n > Len(groups) THEN acc
    ELSE process_all_id_groups(groups, n + 1, current, upds, sys_date, mode, timestamp,
             extend_with_group(acc.to_expire, acc.to_insert,
                 process_id_group_optimized(groups[n].cur, groups[n].upd, current, upds,
                                            sys_date, mode, timestamp)))

\* prepare_inputs: the updates batch the call goes on with
prepare_inputs(upds, conflate) ==
    IF conflate /\ Len(upds) > 1 THEN conflate_input_updates(upds) ELSE upds

\* process_updates_with_algorithm as a function of its inputs, the clock reading and
\* the iteration order of the keys (key_order lists every key of the inputs)
process_updates(current, given, sys_date, mode, conflate, timestamp, key_order) ==
    LET upds == prepare_inputs(given, conflate)
        quick == handle_empty_inputs(current, upds, sys_date, mode, timestamp)
    IN IF quick.some THEN quick.changeset
       ELSE LET groups == GroupsInOrder(build_id_groups(current, upds), key_order)
                acc == process_all_id_groups(groups, 1, current, upds, sys_date, mode,
                                             timestamp, [to_expire |-> <<>>, to_insert |-> <<>>])
            IN build_final_changeset(acc.to_expire, acc.to_insert, current, timestamp)

----------------------------------------------------------------------------
(* The caller's table: applying a changeset *)

\* an output row as a table row
TableRow(r) ==
    [id |-> r.id, value_hash |-> r.value_hash,
     effective_from |-> r.effective_from, effective_to |-> r.effective_to,
     as_of_from |-> r.as_of_from, as_of_to |-> r.as_of_to]

\* current rows whose index is not in expire, then every inserted row
ApplyChangeset(current, expire, inserts) ==
    LET Kept(i) == \A n \in DOMAIN expire : expire[n] # i - 1
        kept == SelectSeq([i \in 1..Len(current) |-> i], Kept)
        rows == Flatten(inserts)
    IN [n \in 1..Len(kept) |-> current[kept[n]]]
       \o [n \in 1..Len(rows) |-> TableRow(rows[n])]

----------------------------------------------------------------------------
(* Inputs of a call *)

InputRow(id, vh, ef, et, af) ==
    [id |-> id, value_hash |-> vh, effective_from |-> ef, effective_to |-> et,
     as_of_from |-> af, as_of_to |-> MAX_TIMESTAMP]

\* rows of the same key have pairwise disjoint effective intervals
NonOverlappingPerKey(rows) ==
    \A i, j \in DOMAIN rows :
        (i < j /\ rows[i].id = rows[j].id) => ~has_temporal_intersection(rows[i], rows[j])

NonEmptyIntervals(rows) ==
    \A i \in DOMAIN rows : rows[i].effective_from < rows[i].effective_to

\* live rows of the table: non-empty intervals, written at as-of instant 0
CurrentRows ==
    {InputRow(k, h, ef, et, 0) : k \in Keys, h \in Hashes,
                                 ef \in Instants, et \in {t \in Instants : t > 0}}

\* a current_state of n rows
CurrentInputs(n) ==
    IF n = 0 THEN {<<>>}
    ELSE {c \in [1..n -> CurrentRows] : NonEmptyIntervals(c) /\ NonOverlappingPerKey(c)}

\* intervals of update rows: every non-empty one, the empty ones, one reversed
UpdateIntervals ==
    {iv \in Instants \X Instants : iv[1] <= iv[2]} \cup {<<1, 0>>}

\* an updates batch of n rows; row j carries as_of_from = j, later than the table's
\* rows and earlier than the clock
UpdateRows ==
    {InputRow(k, h, iv[1], iv[2], 0) : k \in Keys, h \in Hashes, iv \in UpdateIntervals}

UpdateInputs(n) ==
    IF n = 0 THEN {<<>>}
    ELSE {[j \in 1..n |-> [f[j] EXCEPT !.as_of_from = j]] : f \in [1..n -> UpdateRows]}

NoFirst == [kind |-> "none"]

Init ==
    /\ update_mode \in Modes
    /\ system_date \in SystemDates
    /\ \E nc \in 0..MaxCur, nu \in 0..MaxUpd :
          /\ nc + nu <= MaxRows
          /\ current_state \in CurrentInputs(nc)
          /\ updates \in UpdateInputs(nu)
    /\ conflate_inputs \in BOOLEAN
    /\ input_updates = updates
    /\ batch_timestamp = NONE
    /\ pc = "start"
    /\ id_groups = <<>>
    /\ processed = 0
    /\ to_expire = <<>>
    /\ to_insert = <<>>
    /\ expired_records = <<>>
    /\ call = 1
    /\ first = NoFirst

----------------------------------------------------------------------------
(* The steps of process_updates_with_algorithm *)

\* prepare_inputs: the value_hash columns are present; conflates the updates when
\* asked to; reads the clock
PrepareInputs ==
    /\ pc = "start"
    /\ updates' = prepare_inputs(updates, conflate_inputs)
    /\ batch_timestamp' = UtcNow(call)
    /\ pc' = "prepared"
    /\ UNCHANGED <<current_state, conflate_inputs, input_updates, update_mode, system_date,
                   id_groups, processed, to_expire, to_insert, expired_records, call, first>>

\* handle_empty_inputs returns Some(changeset): the call returns it
HandleEmptyInputs ==
    /\ pc = "prepared"
    /\ LET quick == handle_empty_inputs(current_state, updates, system_date, update_mode,
                                        batch_timestamp)
       IN /\ quick.some
          /\ to_expire' = quick.changeset.to_expire
          /\ to_insert' = quick.changeset.to_insert
          /\ expired_records' = quick.changeset.expired_records
    /\ pc' = "done"
    /\ UNCHANGED <<current_state, updates, conflate_inputs, input_updates, update_mode,
                   system_date, batch_timestamp, id_groups, processed, call, first>>

\* handle_empty_inputs returns None; build_id_groups fills the hash map, whose
\* iteration order is not specified
BuildIdGroups ==
    /\ pc = "prepared"
    /\ ~handle_empty_inputs(current_state, updates, system_date, update_mode,
                            batch_timestamp).some
    /\ LET groups == build_id_groups(current_state, updates)
       IN \E key_order \in IterationOrders(DOMAIN groups) :
              id_groups' = GroupsInOrder(groups, key_order)
    /\ processed' = 0
    /\ pc' = "groups"
    /\ UNCHANGED <<current_state, updates, conflate_inputs, input_updates, update_mode,
                   system_date, batch_timestamp, to_expire, to_insert, expired_records, call,
                   first>>

\* one iteration of the loop of process_all_id_groups
ProcessIdGroup ==
    /\ pc = "groups"
    /\ processed < Len(id_groups)
    /\ LET g == id_groups[processed + 1]
           result == process_id_group_optimized(g.cur, g.upd, current_state, updates,
                                                system_date, update_mode, batch_timestamp)
           acc == extend_with_group(to_expire, to_insert, result)
       IN /\ to_expire' = acc.to_expire
          /\ to_insert' = acc.to_insert
    /\ processed' = processed + 1
    /\ UNCHANGED <<current_state, updates, conflate_inputs, input_updates, update_mode,
                   system_date, batch_timestamp, pc, id_groups, expired_records, call, first>>

\* build_final_changeset: the call returns
BuildFinalChangeset ==
    /\ pc = "groups"
    /\ processed = Len(id_groups)
    /\ LET changeset == build_final_changeset(to_expire, to_insert, current_state,
                                              batch_timestamp)
       IN /\ to_expire' = changeset.to_expire
          /\ to_insert' = changeset.to_insert
          /\ expired_records' = changeset.expired_records
    /\ pc' = "done"
    /\ UNCHANGED <<current_state, updates, conflate_inputs, input_updates, update_mode,
                   system_date, batch_timestamp, id_groups, processed, call, first>>

Next ==
    \/ PrepareInputs
    \/ HandleEmptyInputs
    \/ BuildIdGroups
    \/ ProcessIdGroup
    \/ BuildFinalChangeset

Spec == Init /\ [][Next]_vars

----------------------------------------------------------------------------
(* Properties of a finished call *)

Done == pc = "done"

\* the caller's table after the changeset is applied
AppliedTable == ApplyChangeset(current_state, to_expire, to_insert)

InsertedRows == Flatten(to_insert)

ValidCurrent == NonEmptyIntervals(current_state) /\ NonOverlappingPerKey(current_state)

\* the caller's updates batch has non-empty, per key non-overlapping intervals
ValidUpdates == NonEmptyIntervals(input_updates) /\ NonOverlappingPerKey(input_updates)

\* no two rows of a key with equal value_hash are exactly adjacent
NoAdjacentSameHash(rows) ==
    \A i, j \in DOMAIN rows :
        (i # j /\ rows[i].id = rows[j].id /\ rows[i].value_hash = rows[j].value_hash)
            => rows[i].effective_to # rows[j].effective_from

\* what process_all_id_groups hands to build_final_changeset in this call
RawAccumulation ==
    process_all_id_groups(id_groups, 1, current_state, updates, system_date, update_mode,
                          batch_timestamp, [to_expire |-> <<>>, to_insert |-> <<>>])

\* C1: in delta mode, with current rows and update rows pairwise non-overlapping and
\* non-empty per key, the table obtained by removing the rows at to_expire and adding
\* the rows of to_insert has pairwise non-overlapping effective intervals per key.
C1_DeltaNonOverlap ==
    (Done /\ update_mode = "Delta" /\ ValidCurrent /\ ValidUpdates)
        => NonOverlappingPerKey(AppliedTable)

\* a delta call on valid inputs in which an update split a current row in three
C1_Witness ==
    /\ Done /\ update_mode = "Delta" /\ ValidCurrent /\ ValidUpdates
    /\ Len(to_expire) = 1
    /\ Len(InsertedRows) = 3
    /\ \A n \in DOMAIN InsertedRows : InsertedRows[n].via = "segment"

\* C2: for a current_state without exactly adjacent equal-hash rows of a key and any
\* updates, in either mode, the applied table has no two rows of a key with equal
\* value_hash and exactly adjacent effective intervals.
C2_MandatoryConflation ==
    (Done /\ NoAdjacentSameHash(current_state)) => NoAdjacentSameHash(AppliedTable)

\* C2 for several keys in one delta call: with one current row and two update rows of
\* different keys, all of positive width, the applied table has no two rows of a key
\* with equal value_hash and exactly adjacent effective intervals.
C2_SeveralKeysOneCall ==
    (/\ Done /\ update_mode = "Delta"
     /\ ValidCurrent /\ ValidUpdates
     /\ Len(current_state) = 1 /\ Len(input_updates) = 2
     /\ input_updates[1].id # input_updates[2].id)
        => NoAdjacentSameHash(AppliedTable)

\* C3: every row of to_insert has effective_from < effective_to and
\* as_of_from < as_of_to, in either mode and on every path.
C3_PositiveWidth ==
    Done => \A n \in DOMAIN InsertedRows :
                /\ InsertedRows[n].effective_from < InsertedRows[n].effective_to
                /\ InsertedRows[n].as_of_from < InsertedRows[n].as_of_to

\* C4: to_expire of a finished call is strictly increasing and every element is a row
\* index of current_state.
C4_ExpireListShape ==
    Done => /\ \A n \in DOMAIN to_expire : 0 <= to_expire[n] /\ to_expire[n] < Len(current_state)
            /\ \A n \in 1..(Len(to_expire) - 1) : to_expire[n] < to_expire[n + 1]

\* a full-state call in which one current row was selected for expiry more than once
C4_Witness ==
    /\ Done /\ update_mode = "FullState" /\ id_groups # <<>>
    /\ to_expire # <<>>
    /\ Len(RawAccumulation.to_expire) > Len(to_expire)

\* the empty-updates full-state quick path expiring two rows
C4_WitnessQuickPath ==
    /\ Done /\ update_mode = "FullState" /\ updates = <<>>
    /\ to_expire = <<0, 1>>

----------------------------------------------------------------------------
(* Delta mode: which rows a call touches *)

\* rows of key k in the updates batch the call works on (after prepare_inputs)
UpdatesOfKey(k) == {j \in DOMAIN updates : updates[j].id = k}

\* rows of key k in the updates batch the caller passed
InputUpdatesOfKey(k) == {j \in DOMAIN input_updates : input_updates[j].id = k}

CurrentOfKey(k) == {i \in DOMAIN current_state : current_state[i].id = k}

\* the current rows of key k as the records the timeline engine is given
CurrentRecordsOfKey(k) ==
    create_bitemporal_records_from_indices(IndicesOf(current_state, k), current_state)

IntersectsNoUpdate(c) ==
    \A j \in InputUpdatesOfKey(c.id) : ~has_temporal_intersection(c, input_updates[j])

IntersectsNoCurrent(u) ==
    \A i \in CurrentOfKey(u.id) : ~has_temporal_intersection(current_state[i], u)

IsExpired(i) == \E n \in DOMAIN to_expire : to_expire[n] = i - 1

\* update row u intersects a current row of its key with equal value_hash
IsNoChange(u) ==
    \E i \in CurrentOfKey(u.id) :
        /\ has_temporal_intersection(current_state[i], u)
        /\ current_state[i].value_hash = u.value_hash

IsNoChangeRow(j) == IsNoChange(updates[j])

\* the inserted rows that carry the data columns of update row j
RowsOfUpdate(j) ==
    {n \in DOMAIN InsertedRows : InsertedRows[n].src = <<"upd", j - 1>>}

\* C5: in delta mode a current row that intersects no update row of its key is in
\* to_expire only if some update row of the key has the same value_hash, is exactly
\* adjacent to it and intersects no current row of the key; when the only update of a
\* key intersects a current row, a different current row that is merely adjacent to it
\* with the same value_hash is not expired, and the rows inserted with the update's
\* data cover the update's own interval and nothing more.
C5_BackfillExtensionSafety ==
    (Done /\ update_mode = "Delta") =>
        /\ \A i \in DOMAIN current_state :
              (IsExpired(i) /\ IntersectsNoUpdate(current_state[i]))
                  => \E j \in InputUpdatesOfKey(current_state[i].id) :
                        /\ can_conflate_records(current_state[i], input_updates[j])
                        /\ IntersectsNoCurrent(input_updates[j])
        /\ \A i \in DOMAIN current_state, j \in DOMAIN updates :
              (/\ current_state[i].id = updates[j].id
               /\ UpdatesOfKey(updates[j].id) = {j}
               /\ Cardinality(InputUpdatesOfKey(updates[j].id)) = 1
               /\ can_conflate_records(current_state[i], updates[j])
               /\ ~is_empty_range(updates[j])
               /\ ~IntersectsNoCurrent(updates[j])
               /\ ~IsNoChangeRow(j))
                  => /\ ~IsExpired(i)
                     /\ RowsOfUpdate(j) # {}
                     /\ \A n \in RowsOfUpdate(j) :
                           /\ updates[j].effective_from <= InsertedRows[n].effective_from
                           /\ InsertedRows[n].effective_to <= updates[j].effective_to
                     /\ \E n \in RowsOfUpdate(j) :
                           InsertedRows[n].effective_from = updates[j].effective_from
                     /\ \E n \in RowsOfUpdate(j) :
                           InsertedRows[n].effective_to = updates[j].effective_to

\* the backfill scenario: the update replaces the second current row and is adjacent
\* to the first, which has the update's value_hash and stays
C5_Witness ==
    /\ Done /\ update_mode = "Delta"
    /\ Len(current_state) = 2 /\ Len(input_updates) = 1
    /\ current_state[1].id = updates[1].id /\ current_state[2].id = updates[1].id
    /\ can_conflate_records(current_state[1], updates[1])
    /\ current_state[2].effective_from = updates[1].effective_from
    /\ current_state[2].effective_to = updates[1].effective_to
    /\ current_state[2].value_hash # updates[1].value_hash
    /\ to_expire = <<1>>
    /\ Len(InsertedRows) = 1

\* a pure extension: the update intersects nothing and the adjacent equal-hash
\* current row is expired
C5_WitnessExtension ==
    /\ Done /\ update_mode = "Delta"
    /\ \E i \in DOMAIN current_state :
          /\ IsExpired(i) /\ IntersectsNoUpdate(current_state[i])

RemoveAt(rows, j) == SubSeq(rows, 1, j - 1) \o SubSeq(rows, j + 1, Len(rows))

\* the keys in the order in which this call iterates over its groups
KeyOrder == [n \in DOMAIN id_groups |-> id_groups[n].key]

\* a changeset without the bookkeeping fields of its inserted rows
PlainChangeSet(cs) ==
    [to_expire |-> cs.to_expire,
     to_insert |-> [b \in DOMAIN cs.to_insert |->
                       [n \in DOMAIN cs.to_insert[b] |-> TableRow(cs.to_insert[b][n])]],
     expired_records |-> cs.expired_records]

\* C6: in delta mode an update row that intersects a current row of its key with equal
\* value_hash changes nothing: the changeset of the call equals the changeset of the
\* same call without that row, and when it is the only update row of its key no
\* current row of the key is expired and no row of the key is inserted.
C6_NoChangeRowsInert ==
    (Done /\ update_mode = "Delta") =>
        \A j \in DOMAIN input_updates :
            IsNoChange(input_updates[j]) =>
                /\ PlainChangeSet(ChangeSet(to_expire, to_insert, expired_records))
                     = PlainChangeSet(process_updates(current_state, RemoveAt(input_updates, j),
                                                      system_date, update_mode, conflate_inputs,
                                                      batch_timestamp, KeyOrder))
                /\ InputUpdatesOfKey(input_updates[j].id) = {j} =>
                      /\ \A i \in CurrentOfKey(input_updates[j].id) : ~IsExpired(i)
                      /\ \A n \in DOMAIN InsertedRows :
                            InsertedRows[n].id # input_updates[j].id

\* C6 for calls that do not conflate their inputs: the changeset equals the changeset
\* of the same call without the no-change row.
C6_InertWithoutInputConflation ==
    (Done /\ update_mode = "Delta" /\ ~conflate_inputs) =>
        \A j \in DOMAIN input_updates :
            IsNoChange(input_updates[j]) =>
                PlainChangeSet(ChangeSet(to_expire, to_insert, expired_records))
                  = PlainChangeSet(process_updates(current_state, RemoveAt(input_updates, j),
                                                   system_date, update_mode, conflate_inputs,
                                                   batch_timestamp, KeyOrder))

\* a delta call with a no-change row next to a row of the same key that changes a value
C6_Witness ==
    /\ Done /\ update_mode = "Delta" /\ ~conflate_inputs
    /\ Len(input_updates) = 2 /\ input_updates[1].id = input_updates[2].id
    /\ IsNoChange(input_updates[1]) /\ ~is_empty_range(input_updates[1])
    /\ to_expire # <<>> /\ to_insert # <<>>

----------------------------------------------------------------------------
(* The rows the delta sweep emits, before post-processing *)

Sweeping == pc = "groups" /\ update_mode = "Delta"

PendingRows == Flatten(to_insert)

\* update row j of key k takes part in the sweep of k
IsOverlappingUpdate(j) ==
    LET cur == CurrentRecordsOfKey(updates[j].id)
    IN /\ ~is_empty_range(updates[j])
       /\ ~is_no_change_update(cur, updates[j])
       /\ has_overlap_with_current(cur, updates[j])

\* the update rows of key k are non-empty and pairwise non-overlapping
ValidUpdatesOfKey(k) ==
    \A j \in UpdatesOfKey(k) :
        /\ ~is_empty_range(updates[j])
        /\ \A l \in UpdatesOfKey(k) :
              l # j => ~has_temporal_intersection(updates[j], updates[l])

Covers(row, seg) ==
    row.effective_from <= seg.effective_from /\ seg.effective_to <= row.effective_to

\* C9: a segment [d, d') emitted by the delta sweep carries the data columns and the
\* as_of_from of the active update when an update is active and no current row is
\* active or the active current row has another value_hash; otherwise it carries the
\* data columns of the active current row and the as_of_from of an overlapping update
\* row of the key, never the current row's own; its as_of_to is the +infinity
\* sentinel.  The active rows are rows of the key that take part in the sweep and
\* whose interval covers [d, d'); a current row that takes part and covers [d, d') is
\* active, and so is such an update row when the key's update rows do not overlap.
C9_EmitPolicy ==
    Sweeping =>
        \A n \in DOMAIN PendingRows :
            LET r == PendingRows[n]
            IN r.via = "segment" =>
                 LET au == r.active.upd
                     ac == r.active.cur
                     emit_update ==
                         /\ au # NONE
                         /\ (ac = NONE
                             \/ RowAt(updates, au).value_hash
                                  # RowAt(current_state, ac).value_hash)
                 IN /\ r.as_of_to = MAX_TIMESTAMP
                    /\ r.effective_from < r.effective_to
                    /\ au # NONE \/ ac # NONE
                    /\ au # NONE =>
                          /\ RowAt(updates, au).id = r.id
                          /\ IsOverlappingUpdate(au + 1)
                          /\ Covers(RowAt(updates, au), r)
                    /\ ac # NONE =>
                          /\ RowAt(current_state, ac).id = r.id
                          /\ IsExpired(ac + 1)
                          /\ Covers(RowAt(current_state, ac), r)
                    /\ ac = NONE =>
                          \A i \in CurrentOfKey(r.id) :
                              IsExpired(i) => ~Covers(current_state[i], r)
                    /\ (au = NONE /\ ValidUpdatesOfKey(r.id)) =>
                          \A j \in UpdatesOfKey(r.id) :
                              IsOverlappingUpdate(j) => ~Covers(updates[j], r)
                    /\ IF emit_update
                       THEN /\ r.src = <<"upd", au>>
                            /\ r.value_hash = RowAt(updates, au).value_hash
                            /\ r.as_of_from = RowAt(updates, au).as_of_from
                       ELSE /\ r.src = <<"cur", ac>>
                            /\ r.value_hash = RowAt(current_state, ac).value_hash
                            /\ r.as_of_from # RowAt(current_state, ac).as_of_from
                            /\ \E j \in UpdatesOfKey(r.id) :
                                  /\ IsOverlappingUpdate(j)
                                  /\ r.as_of_from = updates[j].as_of_from

\* the sweep emitted the update over part of a current row and the rest of the
\* current row with the update's as_of_from
C9_Witness ==
    /\ Sweeping /\ processed = Len(id_groups)
    /\ \E n, m \in DOMAIN PendingRows :
          /\ PendingRows[n].via = "segment" /\ PendingRows[n].src[1] = "upd"
          /\ PendingRows[n].active.cur # NONE
          /\ PendingRows[m].via = "segment" /\ PendingRows[m].src[1] = "cur"

\* C10: in delta mode every index of to_expire is a current row whose key has an update
\* row, and every inserted row has a key that occurs in updates.
C10_DeltaLeavesAbsentKeysAlone ==
    (Done /\ update_mode = "Delta") =>
        /\ \A i \in DOMAIN current_state :
              IsExpired(i) => InputUpdatesOfKey(current_state[i].id) # {}
        /\ \A n \in DOMAIN InsertedRows : InputUpdatesOfKey(InsertedRows[n].id) # {}

\* a delta call that changes one key while another key has current rows and no update
C10_Witness ==
    /\ Done /\ update_mode = "Delta"
    /\ to_expire # <<>> /\ to_insert # <<>>
    /\ \E i \in DOMAIN current_state : InputUpdatesOfKey(current_state[i].id) = {}

----------------------------------------------------------------------------
(* A second call on the applied table *)

\* the caller applies the changeset and calls again, with the given updates batch
CallAgain(kind, next_updates) ==
    /\ pc = "done"
    /\ call = 1
    /\ first' = [kind |-> kind, current_state |-> current_state,
                 updates |-> input_updates,
                 to_expire |-> to_expire, to_insert |-> to_insert]
    /\ current_state' = AppliedTable
    /\ updates' = next_updates
    /\ input_updates' = next_updates
    /\ call' = 2
    /\ pc' = "start"
    /\ batch_timestamp' = NONE
    /\ id_groups' = <<>>
    /\ processed' = 0
    /\ to_expire' = <<>>
    /\ to_insert' = <<>>
    /\ expired_records' = <<>>
    /\ UNCHANGED <<update_mode, system_date, conflate_inputs>>

ReapplySameUpdates == CallAgain("same", input_updates)

ReapplyEmptyUpdates == CallAgain("empty", <<>>)

\* rows of one key
OneKey(rows) == \A i \in DOMAIN rows : rows[i].id = 1

\* update rows of key 1 with a non-empty interval
OneKeyUpdateRows == {r \in UpdateRows : r.id = 1 /\ r.effective_from < r.effective_to}

\* an updates batch of n non-empty rows of key 1 that do not overlap
ValidUpdateInputs(n) ==
    IF n = 0 THEN {<<>>}
    ELSE {u \in {[j \in 1..n |-> [f[j] EXCEPT !.as_of_from = j]] :
                     f \in [1..n -> OneKeyUpdateRows]} : NonOverlappingPerKey(u)}

\* first calls: any updates on small inputs, or one key with up to MaxUpd + 1 update
\* rows that do not overlap
InitReapply ==
    /\ update_mode \in Modes
    /\ system_date \in SystemDates
    /\ \/ \E nc \in 0..MaxCur, nu \in 0..MaxUpd :
             /\ nc + nu < MaxRows
             /\ current_state \in CurrentInputs(nc)
             /\ updates \in UpdateInputs(nu)
       \/ \E nc \in 0..MaxCur, nu \in 0..(MaxUpd + 1) :
             /\ current_state \in {c \in CurrentInputs(nc) : OneKey(c)}
             /\ updates \in ValidUpdateInputs(nu)
    /\ conflate_inputs \in BOOLEAN
    /\ input_updates = updates
    /\ batch_timestamp = NONE
    /\ pc = "start"
    /\ id_groups = <<>>
    /\ processed = 0
    /\ to_expire = <<>>
    /\ to_insert = <<>>
    /\ expired_records = <<>>
    /\ call = 1
    /\ first = NoFirst

NextReapply ==
    \/ PrepareInputs
    \/ HandleEmptyInputs
    \/ BuildIdGroups
    \/ ProcessIdGroup
    \/ BuildFinalChangeset
    \/ ReapplySameUpdates
    \/ ReapplyEmptyUpdates

SpecReapply == InitReapply /\ [][NextReapply]_vars

SecondCallDone == call = 2 /\ pc = "done"

\* C7: in delta mode, the call with the same updates on the table obtained by applying
\* the first call's changeset returns an empty to_expire and no inserted rows.
C7_DeltaReapplicationIdempotent ==
    (SecondCallDone /\ first.kind = "same" /\ update_mode = "Delta")
        => to_expire = <<>> /\ InsertedRows = <<>>

----------------------------------------------------------------------------
(* Delta mode: update rows with an empty effective range *)

\* the changeset of the same call when row j of the caller's updates batch is left out
ChangeSetWithout(j) ==
    LET rest == RemoveAt(input_updates, j)
        Present(k) == (\E i \in DOMAIN current_state : current_state[i].id = k)
                      \/ (\E l \in DOMAIN rest : rest[l].id = k)
    IN PlainChangeSet(process_updates(current_state, rest, system_date, update_mode,
                                      conflate_inputs, batch_timestamp,
                                      SelectSeq(KeyOrder, Present)))

ThisChangeSet == PlainChangeSet(ChangeSet(to_expire, to_insert, expired_records))

\* C11: in delta mode with a non-empty current_state an update row with
\* effective_from >= effective_to is filtered: the changeset of the call equals the
\* changeset of the same call without that row, so the row yields no inserted row and
\* causes no current row to be expired, wherever its instant lies.
C11_EmptyRangeRejection ==
    (Done /\ update_mode = "Delta" /\ current_state # <<>>) =>
        \A j \in DOMAIN input_updates :
            is_empty_range(input_updates[j]) => ThisChangeSet = ChangeSetWithout(j)

\* C11 for calls that do not conflate their inputs: the changeset equals the changeset
\* of the same call without the empty-range row.
C11_FilteredWithoutInputConflation ==
    (Done /\ update_mode = "Delta" /\ current_state # <<>> /\ ~conflate_inputs) =>
        \A j \in DOMAIN input_updates :
            is_empty_range(input_updates[j]) => ThisChangeSet = ChangeSetWithout(j)

\* a delta call without input conflation in which a zero-width update row lies inside
\* a current row of another value_hash, next to an update row that changes the table
C11_Witness ==
    /\ Done /\ update_mode = "Delta" /\ ~conflate_inputs
    /\ Len(input_updates) = 2 /\ input_updates[1].id = input_updates[2].id
    /\ input_updates[1].effective_from = input_updates[1].effective_to
    /\ \E i \in CurrentOfKey(input_updates[1].id) :
          /\ current_state[i].effective_from < input_updates[1].effective_from
          /\ input_updates[1].effective_from < current_state[i].effective_to
          /\ current_state[i].value_hash # input_updates[1].value_hash
    /\ to_expire # <<>> /\ to_insert # <<>>

----------------------------------------------------------------------------
(* Identity columns of other types *)

IdDataTypes == {"Int64", "Float64"}

\* the rows with their identity column cast to the given type
WithIdType(rows, type) ==
    IF type = "Float64" THEN [n \in DOMAIN rows |-> [rows[n] EXCEPT !.id = @ + 10]]
    ELSE rows

\* calls on tables whose identity column is an Int64 or a Float64 column
InitIdTypes ==
    /\ update_mode \in Modes
    /\ system_date \in SystemDates
    /\ \E nc \in 0..MaxCur, nu \in 0..MaxUpd, type \in IdDataTypes :
          /\ nc + nu <= MaxRows
          /\ \E c \in CurrentInputs(nc), u \in UpdateInputs(nu) :
                /\ current_state = WithIdType(c, type)
                /\ updates = WithIdType(u, type)
    /\ conflate_inputs \in BOOLEAN
    /\ input_updates = updates
    /\ batch_timestamp = NONE
    /\ pc = "start"
    /\ id_groups = <<>>
    /\ processed = 0
    /\ to_expire = <<>>
    /\ to_insert = <<>>
    /\ expired_records = <<>>
    /\ call = 1
    /\ first = NoFirst

SpecIdTypes == InitIdTypes /\ [][Next]_vars

\* the groups are processed and build_final_changeset is about to run
Accumulated == pc = "groups" /\ processed = Len(id_groups)

\* the batch carries the given identity, interval and value_hash in its row 0
HasRow(batch, id, ef, et, vh) ==
    /\ RowAt(batch, 0).id = id
    /\ RowAt(batch, 0).effective_from = ef
    /\ RowAt(batch, 0).effective_to = et
    /\ RowAt(batch, 0).value_hash = vh

\* C12: two emitted one-row batches with the same effective interval and value_hash
\* and different identity values are both kept by deduplicate_record_batches, for an
\* Int64 and for a Float64 identity column.
C12_DedupRespectsIdentity ==
    Accumulated =>
        LET deduped == deduplicate_record_batches(to_insert)
        IN \A n, m \in DOMAIN to_insert :
              (/\ Len(to_insert[n]) = 1 /\ Len(to_insert[m]) = 1
               /\ to_insert[n][1].id # to_insert[m][1].id
               /\ to_insert[n][1].effective_from = to_insert[m][1].effective_from
               /\ to_insert[n][1].effective_to = to_insert[m][1].effective_to
               /\ to_insert[n][1].value_hash = to_insert[m][1].value_hash)
                  => \E a, b \in DOMAIN deduped :
                        /\ a # b
                        /\ HasRow(deduped[a], to_insert[n][1].id,
                                  to_insert[n][1].effective_from, to_insert[n][1].effective_to,
                                  to_insert[n][1].value_hash)
                        /\ HasRow(deduped[b], to_insert[m][1].id,
                                  to_insert[n][1].effective_from, to_insert[n][1].effective_to,
                                  to_insert[n][1].value_hash)

\* C12 for an Int64 identity column alone
C12_Int64Identity ==
    (Accumulated /\ \A n \in DOMAIN to_insert : IdDataType(to_insert[n][1].id) = "Int64")
        => C12_DedupRespectsIdentity

----------------------------------------------------------------------------
(* Full-state mode *)

FullState == update_mode = "FullState"

\* C13: in full-state mode, with current rows and update rows pairwise non-overlapping
\* and non-empty per key, the table obtained by removing the rows at to_expire and
\* adding the rows of to_insert has pairwise non-overlapping effective intervals per
\* key.
C13_FullStateNonOverlap ==
    (Done /\ FullState /\ ValidCurrent /\ ValidUpdates)
        => NonOverlappingPerKey(AppliedTable)

\* the inserted rows that are a tombstone of current row i: its identity, value_hash
\* and effective_from, closed at the system date, open in as-of time
TombstonesOf(i) ==
    {n \in DOMAIN InsertedRows :
        /\ InsertedRows[n].id = current_state[i].id
        /\ InsertedRows[n].value_hash = current_state[i].value_hash
        /\ InsertedRows[n].effective_from = current_state[i].effective_from
        /\ InsertedRows[n].effective_to = system_date
        /\ InsertedRows[n].as_of_to = MAX_TIMESTAMP}

\* the key of current row i has no row in the updates batch
KeyAbsent(i) == InputUpdatesOfKey(current_state[i].id) = {}

\* C14: in full-state mode every current row with effective_from <= system_date whose
\* key has no update row is in to_expire and exactly one tombstone is inserted for it,
\* whether updates is empty or holds only other keys.
C14_TombstoneAbsentKeys ==
    (Done /\ FullState) =>
        \A i \in DOMAIN current_state :
            (KeyAbsent(i) /\ current_state[i].effective_from <= system_date)
                => IsExpired(i) /\ Cardinality(TombstonesOf(i)) = 1

\* C15: in full-state mode a current row whose key has no update row and whose
\* effective_from is later than system_date is skipped: it is not in to_expire and no
\* tombstone is inserted for it, so no tombstone has effective_from > effective_to.
C15_TombstoneSkipsFutureRows ==
    (Done /\ FullState) =>
        \A i \in DOMAIN current_state :
            (KeyAbsent(i) /\ current_state[i].effective_from > system_date)
                => ~IsExpired(i) /\ TombstonesOf(i) = {}

\* the current rows of the key of update row u that carry its value_hash
SameHashCurrent(u) ==
    {i \in CurrentOfKey(u.id) : current_state[i].value_hash = u.value_hash}

SameInterval(c, u) ==
    c.effective_from = u.effective_from /\ c.effective_to = u.effective_to

\* no current row of key k is expired and no row of key k is inserted
KeyUntouched(k) ==
    /\ \A i \in CurrentOfKey(k) : ~IsExpired(i)
    /\ \A n \in DOMAIN InsertedRows : InsertedRows[n].id # k

\* C16: in full-state mode, when several current rows of a key carry the value_hash of
\* the key's only update row and one of them has exactly the update's effective
\* interval, the update is a no-op: no current row of the key is expired and no row of
\* the key is inserted, whatever the order of the current rows and whatever the other
\* same-hash rows are.
C16_ExactMatchPriority ==
    (Done /\ FullState /\ ValidCurrent) =>
        \A j \in DOMAIN input_updates :
            LET u == input_updates[j]
            IN (/\ InputUpdatesOfKey(u.id) = {j}
                /\ Cardinality(SameHashCurrent(u)) >= 2
                /\ \E i \in SameHashCurrent(u) : SameInterval(current_state[i], u))
                   => KeyUntouched(u.id)

\* the effective interval does not reach the far-future maximum
Bounded(r) == r.effective_to # MAX_DATETIME

Adjacent(c, u) ==
    are_segments_adjacent(c.effective_from, c.effective_to, u.effective_from, u.effective_to)

\* the rows inserted for key k
InsertedOfKey(k) == {n \in DOMAIN InsertedRows : InsertedRows[n].id = k}

\* exactly one row is inserted for key k and it spans the union of c and u
OneMergedRow(k, c, u) ==
    /\ Cardinality(InsertedOfKey(k)) = 1
    /\ \A n \in InsertedOfKey(k) :
          /\ InsertedRows[n].effective_from = Min(c.effective_from, u.effective_from)
          /\ InsertedRows[n].effective_to = Max(c.effective_to, u.effective_to)
          /\ InsertedRows[n].value_hash = u.value_hash

\* C17: in full-state mode, when the only update row of a key has a same-hash current
\* row whose bounded interval is exactly adjacent to the update's bounded interval and
\* no same-hash current row has the update's interval, that current row is expired and
\* exactly one row is inserted for the update, spanning the union of the two intervals.
C17_AdjacentMerge ==
    (Done /\ FullState /\ ValidCurrent /\ ValidUpdates) =>
        \A j \in DOMAIN input_updates :
            LET u == input_updates[j]
            IN \A i \in SameHashCurrent(u) :
                  (/\ InputUpdatesOfKey(u.id) = {j}
                   /\ Bounded(current_state[i]) /\ Bounded(u)
                   /\ Adjacent(current_state[i], u)
                   /\ \A l \in SameHashCurrent(u) : ~SameInterval(current_state[l], u))
                      => IsExpired(i) /\ OneMergedRow(u.id, current_state[i], u)

\* C17 when the adjacent row is the only current row with the update's value_hash
C17_MergeWithOnlyCandidate ==
    (Done /\ FullState /\ ValidCurrent /\ ValidUpdates) =>
        \A j \in DOMAIN input_updates :
            LET u == input_updates[j]
            IN \A i \in SameHashCurrent(u) :
                  (/\ InputUpdatesOfKey(u.id) = {j}
                   /\ SameHashCurrent(u) = {i}
                   /\ Bounded(current_state[i]) /\ Bounded(u)
                   /\ Adjacent(current_state[i], u))
                      => IsExpired(i) /\ OneMergedRow(u.id, current_state[i], u)

\* some inserted row carries the key and the value_hash of u over the interval of u:
\* the row itself, or the row that conflation merged it into
InsertedCovering(u) ==
    \E n \in DOMAIN InsertedRows :
        /\ InsertedRows[n].id = u.id
        /\ InsertedRows[n].value_hash = u.value_hash
        /\ Covers(InsertedRows[n], u)

\* C18: in full-state mode, with valid current and update rows, whenever an update row
\* of a key has no current row of that key with its value_hash, every current row of
\* the key is in to_expire and the update row is inserted over its own interval, whatever
\* the order of the key's update rows and however the other ones were classified.
C18_ValueChangeExpiresKey ==
    (Done /\ FullState /\ ValidCurrent /\ ValidUpdates) =>
        \A j \in DOMAIN input_updates :
            LET u == input_updates[j]
            IN SameHashCurrent(u) = {} =>
                  /\ \A i \in CurrentOfKey(u.id) : IsExpired(i)
                  /\ InsertedCovering(u)

\* C19: in full-state mode, when the effective interval of the only update row of a key
\* is contained in, and not equal to, the interval of a current row of the key with the
\* same value_hash, no current row of the key is expired and no row of the key is
\* inserted.
C19_ContainedUpdateNoOp ==
    (Done /\ FullState /\ ValidCurrent /\ ValidUpdates) =>
        \A j \in DOMAIN input_updates :
            LET u == input_updates[j]
            IN (/\ InputUpdatesOfKey(u.id) = {j}
                /\ \E i \in SameHashCurrent(u) :
                      Covers(current_state[i], u) /\ ~SameInterval(current_state[i], u))
                   => KeyUntouched(u.id)

\* C20: in full-state mode, when the only current row of a key is bounded and the only
\* update row of the key has its value_hash, starts exactly at its effective_to and is
\* open-ended, the current row is not expired and the rows inserted for the key are the
\* update row with its own interval.
C20_NoMergeWithOpenEnded ==
    (Done /\ FullState /\ ValidCurrent /\ ValidUpdates) =>
        \A j \in DOMAIN input_updates : \A i \in DOMAIN current_state :
            LET u == input_updates[j]
                c == current_state[i]
            IN (/\ CurrentOfKey(u.id) = {i} /\ InputUpdatesOfKey(u.id) = {j}
                /\ c.value_hash = u.value_hash
                /\ Bounded(c)
                /\ u.effective_from = c.effective_to
                /\ u.effective_to = MAX_DATETIME)
                   => /\ ~IsExpired(i)
                      /\ InsertedOfKey(u.id) # {}
                      /\ \A n \in InsertedOfKey(u.id) :
                            /\ InsertedRows[n].value_hash = u.value_hash
                            /\ SameInterval(InsertedRows[n], u)

----------------------------------------------------------------------------
(* The instants and the rows a call writes *)

ExpiredRows == Flatten(expired_records)

\* C21: in full-state mode the as_of_to of every row of expired_records and the
\* as_of_from of every tombstone (a row inserted for a current row whose key has no
\* update row) are the batch timestamp read in prepare_inputs, with an empty and with a
\* non-empty updates batch.
C21_SingleBatchTimestamp ==
    (Done /\ FullState) =>
        /\ \A n \in DOMAIN ExpiredRows : ExpiredRows[n].as_of_to = batch_timestamp
        /\ \A i \in DOMAIN current_state :
              KeyAbsent(i) =>
                  \A n \in TombstonesOf(i) : InsertedRows[n].as_of_from = batch_timestamp

\* C21 for an empty updates batch alone
C21_TimestampOnEmptyUpdates ==
    (Done /\ FullState /\ input_updates = <<>>) => C21_SingleBatchTimestamp

\* expired_records of a finished call: nothing when to_expire is empty, otherwise one
\* batch whose row k is current row to_expire[k] with as_of_to = batch timestamp
ExpiredRecordsShape ==
    Done =>
        IF to_expire = <<>> THEN expired_records = <<>>
        ELSE /\ Len(expired_records) = 1
             /\ Len(expired_records[1]) = Len(to_expire)
             /\ \A k \in DOMAIN to_expire :
                   /\ to_expire[k] + 1 \in DOMAIN current_state
                   /\ expired_records[1][k] =
                         [current_state[to_expire[k] + 1] EXCEPT !.as_of_to = batch_timestamp]

\* C22: in every finished call expired_records is empty when to_expire is empty and
\* otherwise is one batch with one row per index of to_expire, in the same order, each
\* equal to the current row at that index in every column except as_of_to, which is the
\* batch timestamp; no step of the call modifies current_state.
C22_ExpiredRecordsBatch ==
    [](ExpiredRecordsShape) /\ [][current_state' = current_state]_vars

\* a call through the groups that expired two current rows
C22_Witness ==
    /\ Done /\ id_groups # <<>>
    /\ Len(to_expire) = 2
    /\ Len(expired_records) = 1 /\ Len(expired_records[1]) = 2
    /\ expired_records[1][1].as_of_to = batch_timestamp
    /\ current_state[1].as_of_to = MAX_TIMESTAMP

----------------------------------------------------------------------------
(* The order in which the groups are processed *)

\* the multiset of the rows of a list of insert batches
RowBag(batches) ==
    LET rows == Flatten(batches)
        plain == [n \in DOMAIN rows |-> TableRow(rows[n])]
    IN [r \in Range(plain) |-> Cardinality({n \in DOMAIN plain : plain[n] = r})]

\* the changeset of this call when the hash map of the groups iterates in key_order
ChangeSetInOrder(key_order) ==
    process_updates(current_state, input_updates, system_date, update_mode,
                    conflate_inputs, batch_timestamp, key_order)

\* C23: for the inputs of a finished call, to_expire and the multiset of inserted rows
\* are the same for every order in which the groups of the keys are processed and
\* their results merged.
C23_SchedulingIndependent ==
    (Done /\ id_groups # <<>>) =>
        \A key_order \in IterationOrders(Range(KeyOrder)) :
            /\ ChangeSetInOrder(key_order).to_expire = to_expire
            /\ RowBag(ChangeSetInOrder(key_order).to_insert) = RowBag(to_insert)

\* C23 for an Int64 identity column alone
C23_Int64Identity ==
    (\A i \in DOMAIN current_state : IdDataType(current_state[i].id) = "Int64")
        => C23_SchedulingIndependent

----------------------------------------------------------------------------
(* Input conflation *)

\* the caller's updates batch with its rows in the order row_order (a permutation of
\* the 0-based row indices)
Reordered(upds, row_order) == [n \in 1..Len(row_order) |-> RowAt(upds, row_order[n])]

RowOrders(upds) == IterationOrders({n - 1 : n \in DOMAIN upds})

\* the rows of key k ordered by effective_from, rows of equal effective_from in batch order
OrderedRowsOf(upds, k) ==
    LET group == SortGroup(upds, IndicesOf(upds, k))
    IN [n \in DOMAIN group |-> RowAt(upds, group[n])]

\* row n + 1 continues the chain of row n
ChainLink(rows, n) ==
    /\ n + 1 \in DOMAIN rows
    /\ rows[n].value_hash = rows[n + 1].value_hash
    /\ rows[n].effective_to = rows[n + 1].effective_from

\* positions p..q of rows are a maximal chain
MaximalChain(rows, p, q) ==
    /\ p \in DOMAIN rows /\ q \in DOMAIN rows /\ p <= q
    /\ \A n \in p..(q - 1) : ChainLink(rows, n)
    /\ (p > 1 => ~ChainLink(rows, p - 1))
    /\ ~ChainLink(rows, q)

\* one row per maximal chain of every key: the first row with the last row's effective_to
ChainRows(upds) ==
    UNION {LET rows == OrderedRowsOf(upds, k)
           IN {[rows[p] EXCEPT !.effective_to = rows[q].effective_to] :
                   <<p, q>> \in {pq \in (DOMAIN rows) \X (DOMAIN rows) :
                                     MaximalChain(rows, pq[1], pq[2])}}
           : k \in {upds[n].id : n \in DOMAIN upds}}

\* calls on an empty table whose updates batch has MaxChain rows with non-empty
\* intervals and is conflated: prepare_inputs, then the quick path of handle_empty_inputs
InitConflation ==
    /\ update_mode \in Modes
    /\ system_date \in SystemDates
    /\ current_state = <<>>
    /\ updates \in {u \in UpdateInputs(MaxChain) : NonEmptyIntervals(u)}
    /\ conflate_inputs = TRUE
    /\ input_updates = updates
    /\ batch_timestamp = NONE
    /\ pc = "start"
    /\ id_groups = <<>>
    /\ processed = 0
    /\ to_expire = <<>>
    /\ to_insert = <<>>
    /\ expired_records = <<>>
    /\ call = 1
    /\ first = NoFirst

NextConflation ==
    \/ PrepareInputs
    \/ HandleEmptyInputs

SpecConflation == InitConflation /\ [][NextConflation]_vars

\* C24: with conflate_inputs = true the updates the call goes on with are, per key, one
\* row for every maximal chain of rows consecutive in effective_from order with equal
\* value_hash and touching intervals (first row's columns, last row's effective_to), no
\* row of one key merged with a row of another, and the same rows result from every
\* order of the rows of the input batch.
C24_InputConflation ==
    (conflate_inputs /\ pc # "start") =>
        /\ Range(updates) = ChainRows(input_updates)
        /\ Len(updates) = Cardinality(ChainRows(input_updates))
        /\ \A row_order \in RowOrders(input_updates) :
              Range(prepare_inputs(Reordered(input_updates, row_order), TRUE))
                  = Range(updates)

\* C24 for update batches in which no two rows of a key start at the same instant
DistinctStarts(upds) ==
    \A i, j \in DOMAIN upds :
        (i < j /\ upds[i].id = upds[j].id) => upds[i].effective_from # upds[j].effective_from

C24_DistinctStarts == DistinctStarts(input_updates) => C24_InputConflation

\* C24 without the order of the input rows
C24_Chains ==
    (conflate_inputs /\ pc # "start") =>
        /\ Range(updates) = ChainRows(input_updates)
        /\ Len(updates) = Cardinality(ChainRows(input_updates))

----------------------------------------------------------------------------
(* src/src/arrow_hash.rs: the value hash of a row *)

\* a cell of a Utf8 value column: null, or a string as its sequence of characters
NullCell == [is_null |-> TRUE, value |-> <<>>]
Utf8Cell(s) == [is_null |-> FALSE, value |-> s]

StringValues ==
    {<<>>, <<"a">>, <<"a", "b">>, <<"b", "c">>, <<"c">>, <<"N", "U", "L", "L">>}

Utf8Cells == {NullCell} \cup {Utf8Cell(s) : s \in StringValues}

\* str::as_bytes for the characters of StringValues
Utf8Byte(ch) ==
    CASE ch = "a" -> 97 [] ch = "b" -> 98 [] ch = "c" -> 99
      [] ch = "L" -> 76 [] ch = "N" -> 78 [] ch = "U" -> 85

as_bytes(s) == [n \in DOMAIN s |-> Utf8Byte(s[n])]

\* hash_array_value_direct, null and Utf8 branches: the bytes appended to hasher_input
hash_array_value_direct(cell, hasher_input) ==
    IF cell.is_null THEN hasher_input \o <<78, 85, 76, 76>>
    ELSE hasher_input \o as_bytes(cell.value)

\* the inner loop of hash_values_batch_arrow_direct over the value columns of one row
RECURSIVE HasherInput(_, _, _)
HasherInput(values, col, hasher_input) ==
    IF col > Len(values) THEN hasher_input
    ELSE HasherInput(values, col + 1, hash_array_value_direct(values[col], hasher_input))

\* xxh64 / Sha256 of the buffer, taken to be free of collisions
Digest(hasher_input) == <<"digest", hasher_input>>

hash_values_batch_arrow_direct(record_batch) ==
    [n \in DOMAIN record_batch |-> Digest(HasherInput(record_batch[n].values, 1, <<>>))]

\* add_hash_column_arrow_direct: the batch with its value_hash column; hasher_input
\* records the buffer of each row
add_hash_column_arrow_direct(record_batch) ==
    [n \in DOMAIN record_batch |->
        [values |-> record_batch[n].values,
         hasher_input |-> HasherInput(record_batch[n].values, 1, <<>>),
         value_hash |-> hash_values_batch_arrow_direct(record_batch)[n]]]

\* record batches of two rows over two Utf8 value columns, without a value_hash column
ValueRows == {[values |-> <<c1, c2>>] : c1 \in Utf8Cells, c2 \in Utf8Cells}

InitHash ==
    /\ updates \in [1..2 -> ValueRows]
    /\ input_updates = updates
    /\ current_state = <<>>
    /\ update_mode \in Modes
    /\ system_date \in SystemDates
    /\ conflate_inputs = FALSE
    /\ batch_timestamp = NONE
    /\ pc = "start"
    /\ id_groups = <<>>
    /\ processed = 0
    /\ to_expire = <<>>
    /\ to_insert = <<>>
    /\ expired_records = <<>>
    /\ call = 1
    /\ first = NoFirst

\* ensure_hash_column_with_algorithm on a batch without value_hash
AddHashColumn ==
    /\ pc = "start"
    /\ updates' = add_hash_column_arrow_direct(updates)
    /\ pc' = "hashed"
    /\ UNCHANGED <<current_state, conflate_inputs, input_updates, update_mode, system_date,
                   batch_timestamp, id_groups, processed, to_expire, to_insert,
                   expired_records, call, first>>

SpecHash == InitHash /\ [][AddHashColumn]_vars

\* C25: two rows of one batch whose value tuples differ (a null differs from every
\* string, strings differ when their characters do) never get the same byte buffer
\* fed to the digest.
C25_CollisionFreeSerialization ==
    pc = "hashed" =>
        \A i, j \in DOMAIN updates :
            updates[i].values # updates[j].values
                => updates[i].hasher_input # updates[j].hasher_input

\* C25 for rows that agree on every value column but one and hold no null
OneColumnDiffers(v, w) ==
    /\ \A c \in DOMAIN v : ~v[c].is_null /\ ~w[c].is_null
    /\ Cardinality({c \in DOMAIN v : v[c] # w[c]}) = 1
    /\ \A c \in DOMAIN v : v[c] # w[c] => Len(v[c].value) = Len(w[c].value)

C25_EqualLengthStrings ==
    pc = "hashed" =>
        \A i, j \in DOMAIN updates :
            OneColumnDiffers(updates[i].values, updates[j].values)
                => updates[i].hasher_input # updates[j].hasher_input

----------------------------------------------------------------------------
(* Writing instants into nanosecond-precision temporal columns *)

\* a NaiveDateTime with whole seconds: minutes since the epoch and seconds of the minute
DateTime(m, s) == [minutes |-> m, seconds |-> s]

\* i64::MAX nanoseconds since the epoch, as <<minutes, seconds, nanoseconds>>:
\* 9223372036854775807 = (153722867 * 60 + 16) * 10^9 + 854775807
I64_MAX_NANOS == <<153722867, 16, 854775807>>

\* 2020-01-01 and 2025-01-01 00:00:00; the last whole second whose nanosecond count
\* fits in an i64 (2262-04-11 23:47:16) and the one after it; 2262-04-11 23:59:59, the
\* value of MAX_DATETIME and MAX_TIMESTAMP
DateTimes ==
    <<DateTime(26297280, 0), DateTime(28928160, 0), DateTime(153722867, 16),
      DateTime(153722867, 17), DateTime(153722879, 59)>>

SentinelDateTime == DateTimes[5]

\* (datetime - EPOCH).num_nanoseconds(): None when the count does not fit in an i64
num_nanoseconds(datetime) ==
    IF \/ datetime.minutes < I64_MAX_NANOS[1]
       \/ datetime.minutes = I64_MAX_NANOS[1] /\ datetime.seconds <= I64_MAX_NANOS[2]
    THEN [some |-> TRUE, value |-> <<datetime.minutes, datetime.seconds, 0>>]
    ELSE [some |-> FALSE, value |-> <<>>]

\* a slot of a TimestampNanosecondArray
NanosValue(v) == [is_null |-> FALSE, value |-> v]
NanosNull == [is_null |-> TRUE, value |-> <<>>]

\* create_timestamp_array_with_unit, TimeUnit::Nanosecond: unwrap_or(i64::MAX)
create_timestamp_array_with_unit(datetime) ==
    LET nanos == num_nanoseconds(datetime)
    IN NanosValue(IF nanos.some THEN nanos.value ELSE I64_MAX_NANOS)

\* create_timestamp_array_for_records, TimeUnit::Nanosecond: the Option itself is the
\* slot, None being a null
create_timestamp_array_for_records(datetime) ==
    LET nanos == num_nanoseconds(datetime)
    IN IF nanos.some THEN NanosValue(nanos.value) ELSE NanosNull

\* create_timestamp_array of lib.rs, TimeUnit::Nanosecond: ok_or(..)?
create_timestamp_array(datetime) ==
    LET nanos == num_nanoseconds(datetime)
    IN IF nanos.some THEN [ok |-> TRUE, array |-> NanosValue(nanos.value)]
       ELSE [ok |-> FALSE, array |-> NanosNull]

\* the BitemporalRecords handed to a builder: bounds among DateTimes, as_of_from a batch
\* timestamp, as_of_to the sentinel MAX_TIMESTAMP
OverflowRecords ==
    {[effective_from |-> DateTimes[a], effective_to |-> DateTimes[b],
      as_of_from |-> DateTimes[2], as_of_to |-> SentinelDateTime] :
        a \in 1..4, b \in 2..5}

InitOverflow ==
    /\ \E n \in 1..2 : updates \in [1..n -> {r \in OverflowRecords :
                                               r.effective_from.minutes < r.effective_to.minutes
                                               \/ (r.effective_from.minutes = r.effective_to.minutes
                                                   /\ r.effective_from.seconds < r.effective_to.seconds)}]
    /\ input_updates = updates
    /\ batch_timestamp \in {DateTimes[2], DateTimes[4]}
    /\ current_state = <<>>
    /\ update_mode \in Modes
    /\ system_date \in SystemDates
    /\ conflate_inputs = FALSE
    /\ pc = "start"
    /\ id_groups = <<>>
    /\ processed = 0
    /\ to_expire = <<>>
    /\ to_insert = <<>>
    /\ expired_records = <<>>
    /\ call = 1
    /\ first = NoFirst

OverflowFrame ==
    UNCHANGED <<current_state, updates, conflate_inputs, input_updates, update_mode,
                system_date, batch_timestamp, id_groups, processed, to_expire, call>>

\* build_temporal_columns for create_record_batch_from_record / _from_update: a
\* one-row batch for the first record (a segment emitted by emit_segment)
CreateRecordBatchFromRecord ==
    /\ pc = "start"
    /\ to_insert' =
          <<<<[effective_from |-> create_timestamp_array_with_unit(updates[1].effective_from),
               effective_to |-> create_timestamp_array_with_unit(updates[1].effective_to),
               as_of_from |-> create_timestamp_array_with_unit(updates[1].as_of_from),
               as_of_to |-> create_timestamp_array_with_unit(updates[1].as_of_to)]>>>>
    /\ pc' = "done"
    /\ first' = [kind |-> "record"]
    /\ UNCHANGED expired_records
    /\ OverflowFrame

\* create_record_batch_from_records: one batch with a row per record
CreateRecordBatchFromRecords ==
    /\ pc = "start"
    /\ to_insert' =
          <<[n \in DOMAIN updates |->
               [effective_from |-> create_timestamp_array_for_records(updates[n].effective_from),
                effective_to |-> create_timestamp_array_for_records(updates[n].effective_to),
                as_of_from |-> create_timestamp_array_for_records(updates[n].as_of_from),
                as_of_to |-> create_timestamp_array_for_records(updates[n].as_of_to)]]>>
    /\ pc' = "done"
    /\ first' = [kind |-> "records"]
    /\ UNCHANGED expired_records
    /\ OverflowFrame

\* create_expired_records_batch, the as_of_to column: unwrap_or(i64::MAX) of the expiry
\* timestamp, one slot per expired row
CreateExpiredRecordsBatch ==
    /\ pc = "start"
    /\ expired_records' =
          <<[n \in DOMAIN updates |->
               [as_of_to |-> create_timestamp_array_with_unit(batch_timestamp)]]>>
    /\ pc' = "done"
    /\ first' = [kind |-> "expired"]
    /\ UNCHANGED to_insert
    /\ OverflowFrame

\* create_merged_segment_cross_batch for the first record: the bounds and the batch
\* timestamp go through create_timestamp_array, whose error ends the call
CreateMergedSegment ==
    /\ pc = "start"
    /\ LET from == create_timestamp_array(updates[1].effective_from)
           to == create_timestamp_array(updates[1].effective_to)
           as_of == create_timestamp_array(batch_timestamp)
       IN IF from.ok /\ to.ok /\ as_of.ok
          THEN /\ to_insert' = <<<<[effective_from |-> from.array, effective_to |-> to.array,
                                    as_of_from |-> as_of.array]>>>>
               /\ pc' = "done"
          ELSE /\ to_insert' = <<>>
               /\ pc' = "error"
    /\ first' = [kind |-> "merged"]
    /\ UNCHANGED expired_records
    /\ OverflowFrame

NextOverflow ==
    \/ CreateRecordBatchFromRecord
    \/ CreateRecordBatchFromRecords
    \/ CreateExpiredRecordsBatch
    \/ CreateMergedSegment

SpecOverflow == InitOverflow /\ [][NextOverflow]_vars

\* the instants a builder has to write
WrittenDateTimes ==
    CASE first.kind = "record" ->
             {updates[1].effective_from, updates[1].effective_to, updates[1].as_of_from,
              updates[1].as_of_to}
      [] first.kind = "records" ->
             UNION {{updates[n].effective_from, updates[n].effective_to,
                     updates[n].as_of_from, updates[n].as_of_to} : n \in DOMAIN updates}
      [] first.kind = "expired" -> {batch_timestamp}
      [] first.kind = "merged" ->
             {updates[1].effective_from, updates[1].effective_to, batch_timestamp}
      [] OTHER -> {}

\* the slots of the temporal columns of the rows put out
WrittenSlots ==
    LET rows == Flatten(to_insert) \o Flatten(expired_records)
    IN UNION {{rows[n][c] : c \in DOMAIN rows[n]} : n \in DOMAIN rows}

\* C26: when an instant a builder has to write into a nanosecond column has a nanosecond
\* count that does not fit in an i64, the call ends in an error; no temporal slot of an
\* output row is null or holds the clamped maximum i64::MAX.
C26_OverflowReported ==
    pc # "start" =>
        /\ (\E d \in WrittenDateTimes : ~num_nanoseconds(d).some) => pc = "error"
        /\ \A slot \in WrittenSlots : ~slot.is_null /\ slot.value # I64_MAX_NANOS

\* C26 for the merged rows of full-state mode alone
C26_MergedSegmentReports == first.kind = "merged" => C26_OverflowReported

----------------------------------------------------------------------------
(* The live value of a key at an instant, before and after the changeset *)

\* the rows of key k of a table that cover instant t
LiveAt(table, k, t) ==
    {n \in DOMAIN table :
        /\ table[n].id = k
        /\ table[n].effective_from <= t /\ t < table[n].effective_to}

\* the instants of update row u
InstantsOf(u) == {t \in 0..(MAX_DATETIME - 1) : u.effective_from <= t /\ t < u.effective_to}

\* update row u holds over its whole interval in the applied table
TakesEffect(u) ==
    \A t \in InstantsOf(u) :
        /\ Cardinality(LiveAt(AppliedTable, u.id, t)) = 1
        /\ \A n \in LiveAt(AppliedTable, u.id, t) : AppliedTable[n].value_hash = u.value_hash

DeltaValidCall == Done /\ update_mode = "Delta" /\ ValidCurrent /\ ValidUpdates

\* C27: in delta mode, with current rows and update rows pairwise non-overlapping per
\* key and update intervals non-empty, after the changeset is applied every instant of
\* every update row is covered by exactly one live row of the update's key, and that
\* row has the update's value_hash.
C27_UpdatesTakeEffect ==
    DeltaValidCall => \A j \in DOMAIN input_updates : TakesEffect(input_updates[j])

\* C27 for keys with a single update row that intersects no current row of equal
\* value_hash
C27_SingleUpdatePerKey ==
    DeltaValidCall =>
        \A j \in DOMAIN input_updates :
            (/\ Cardinality(InputUpdatesOfKey(input_updates[j].id)) = 1
             /\ ~IsNoChange(input_updates[j]))
                => TakesEffect(input_updates[j])

\* instant t lies in the effective interval of no update row of key k
OutsideUpdates(k, t) ==
    \A j \in InputUpdatesOfKey(k) :
        ~(input_updates[j].effective_from <= t /\ t < input_updates[j].effective_to)

\* the input row whose data columns output row r carries
SourceRow(r) ==
    IF r.src[1] = "cur" THEN RowAt(current_state, r.src[2]) ELSE RowAt(updates, r.src[2])

\* the live value of key k at instant t is the same before and after the changeset: a
\* current row that covered t is kept, or is expired and replaced by exactly one inserted
\* row with its value_hash and data columns of that value; an instant no current row covered is
\* covered by no inserted row
SameLiveValue(k, t) ==
    LET before == LiveAt(current_state, k, t)
        kept == {i \in before : ~IsExpired(i)}
        inserted == LiveAt(InsertedRows, k, t)
    IN IF before = {} THEN inserted = {}
       ELSE /\ Cardinality(kept) + Cardinality(inserted) = 1
            /\ \A n \in inserted :
                  \E i \in before :
                      /\ InsertedRows[n].value_hash = current_state[i].value_hash
                      /\ SourceRow(InsertedRows[n]).value_hash = current_state[i].value_hash

\* C28: in delta mode, with current rows pairwise non-overlapping per key, at every
\* instant of a key that lies in no update row's interval of that key the live value
\* after the changeset is the live value before it.
C28_NothingChangesOutsideUpdates ==
    (Done /\ update_mode = "Delta" /\ ValidCurrent) =>
        \A k \in Keys \cup Float64Keys : \A t \in 0..(MAX_DATETIME - 1) :
            OutsideUpdates(k, t) => SameLiveValue(k, t)

\* the (identity, effective_from, effective_to, value_hash) tuples of the rows of a list
\* of batches
RowTuples(batches) ==
    {<<r.id, r.effective_from, r.effective_to, r.value_hash>> : r \in Range(Flatten(batches))}

\* C29: the rows deduplicate_record_batches puts out carry the same set of (identity,
\* effective_from, effective_to, value_hash) tuples as the rows of the insert batches
\* it is given by build_final_changeset, rows of batches of more than one row included.
C29_DedupLosesNoRow ==
    Accumulated => RowTuples(deduplicate_record_batches(to_insert)) = RowTuples(to_insert)

\* C29 for lists of one-row batches of an Int64 identity column
C29_OneRowBatches ==
    (/\ \A n \in DOMAIN to_insert : Len(to_insert[n]) = 1
     /\ \A n \in DOMAIN to_insert : IdDataType(to_insert[n][1].id) = "Int64")
        => C29_DedupLosesNoRow

----------------------------------------------------------------------------
(* The partitioner on identities of two Utf8 columns *)

\* the text create_id_key_with_buffer writes for one Utf8 identity value
IdText(cell) == IF cell.is_null THEN <<"N", "U", "L", "L">> ELSE cell.value

\* create_id_key_with_buffer over the identity arrays from position i on: a '|' before
\* every value but the first
RECURSIVE IdKeyBuffer(_, _, _)
IdKeyBuffer(id_values, i, buffer) ==
    IF i > Len(id_values) THEN buffer
    ELSE IdKeyBuffer(id_values, i + 1,
                     (IF i > 1 THEN Append(buffer, "|") ELSE buffer) \o IdText(id_values[i]))

\* a batch with the key text of every row in place of its identity values;
\* build_id_groups reads the key of a row from it
WithIdKeys(batch) ==
    [n \in DOMAIN batch |-> [batch[n] EXCEPT !.id = IdKeyBuffer(batch[n].id, 1, <<>>)]]

IdCells ==
    {NullCell, Utf8Cell(<<"N", "U", "L", "L">>), Utf8Cell(<<"a">>), Utf8Cell(<<"c">>),
     Utf8Cell(<<"a", "|", "b">>), Utf8Cell(<<"b", "|", "c">>)}

\* rows whose identity is a pair of Utf8 values
IdRows == {InputRow(<<c1, c2>>, 1, 0, 1, 0) : c1 \in IdCells, c2 \in IdCells}

InitIdKeys ==
    /\ current_state \in [1..1 -> IdRows]
    /\ \E nu \in 1..2 : updates \in [1..nu -> IdRows]
    /\ input_updates = updates
    /\ update_mode \in Modes
    /\ system_date \in SystemDates
    /\ conflate_inputs = FALSE
    /\ batch_timestamp = NONE
    /\ pc = "start"
    /\ id_groups = <<>>
    /\ processed = 0
    /\ to_expire = <<>>
    /\ to_insert = <<>>
    /\ expired_records = <<>>
    /\ call = 1
    /\ first = NoFirst

\* build_id_groups on the two batches
BuildIdGroupsUtf8 ==
    /\ pc = "start"
    /\ LET groups == build_id_groups(WithIdKeys(current_state), WithIdKeys(updates))
       IN \E key_order \in IterationOrders(DOMAIN groups) :
              id_groups' = GroupsInOrder(groups, key_order)
    /\ pc' = "grouped"
    /\ UNCHANGED <<current_state, updates, conflate_inputs, input_updates, update_mode,
                   system_date, batch_timestamp, processed, to_expire, to_insert,
                   expired_records, call, first>>

SpecIdKeys == InitIdKeys /\ [][BuildIdGroupsUtf8]_vars

\* the groups that hold row index i of the current batch / of the updates batch
GroupsOfCurrent(i) == {g \in DOMAIN id_groups : i \in Range(id_groups[g].cur)}
GroupsOfUpdate(j) == {g \in DOMAIN id_groups : j \in Range(id_groups[g].upd)}

\* C30: build_id_groups puts every row index of current_state and of updates into
\* exactly one group, and two rows are in the same group exactly when their identity
\* tuples are equal.
C30_GroupsExactlyByIdentity ==
    pc = "grouped" =>
        /\ \A i \in DOMAIN current_state : Cardinality(GroupsOfCurrent(i - 1)) = 1
        /\ \A j \in DOMAIN updates : Cardinality(GroupsOfUpdate(j - 1)) = 1
        /\ \A i \in DOMAIN current_state, j \in DOMAIN updates :
              (GroupsOfCurrent(i - 1) = GroupsOfUpdate(j - 1))
                  <=> (current_state[i].id = updates[j].id)
        /\ \A j, l \in DOMAIN updates :
              (GroupsOfUpdate(j - 1) = GroupsOfUpdate(l - 1))
                  <=> (updates[j].id = updates[l].id)

\* C30 for identities without a null and without the separator in a value
PlainIdentity(id_values) ==
    \A c \in DOMAIN id_values :
        /\ ~id_values[c].is_null
        /\ \A n \in DOMAIN id_values[c].value : id_values[c].value[n] # "|"

C30_PlainIdentities ==
    (/\ \A i \in DOMAIN current_state : PlainIdentity(current_state[i].id)
     /\ \A j \in DOMAIN updates : PlainIdentity(updates[j].id))
        => C30_GroupsExactlyByIdentity

\* C28 for an Int64 identity column alone
C28_Int64Identity ==
    (\A i \in DOMAIN current_state : IdDataType(current_state[i].id) = "Int64")
        /\ (\A j \in DOMAIN input_updates : IdDataType(input_updates[j].id) = "Int64")
        => C28_NothingChangesOutsideUpdates

====
